---- MODULE Spec2Model ----
(***************************************************************************)
(* Locomotion and physics-synchronisation core: the character state        *)
(* machine (CharacterStateSystem), the frame-scoped event queues, and the  *)
(* rigid-body lifecycle bridge (PhysicsSystem hooks on the ECS world).     *)
(*                                                                         *)
(* Time values are C++ floats.  They are kept as integers counting units   *)
(* of 2^-29 s: every float32 in [2^-6, 4) and 0 is a whole number of such  *)
(* units, and a float32 sum is the exact sum rounded to 24 significant     *)
(* bits, ties to even (FloatRound).                                        *)
(***************************************************************************)
EXTENDS Integers, Sequences, FiniteSets, TLC

VARIABLES
    state,        \* CharacterState component of the player character
    intent,       \* CharacterIntent component of the player character
    prev,         \* history: CharacterState before the last apply_state call
    call,         \* history: arguments of the last apply_state call
    run_sum,      \* history: exact sum of the dt of the airborne calls since the last grounded call
    run_len,      \* history: number of airborne calls since the last grounded call
    pc,           \* position of the frame in the pipeline (SpecTick)
    jump_events,  \* Events<JumpEvent>::buffer_
    land_events,  \* Events<LandEvent>::buffer_
    alive,        \* entities of the ecs::World that exist
    comps,        \* per entity: the component types attached to it
    rb_type,      \* per entity: RigidBodyConfig::type ("None" when no config)
    handle,       \* per entity: RigidBodyHandle::id (NoBody when no handle)
    bodies,       \* Jolt body table: per body id "free", "created", "added" or "dangling"
    ctx,          \* whether the shared_ptr<PhysicsContext> resource is set
    last,         \* history: the last structural operation on the world, the
                  \* handle and body table before it, and its BodyInterface calls
    queue,        \* Events<TestEvent>::buffer_ of a stand-alone queue
    qlog,         \* history: the last call on queue, its result, the call before
                  \* it, and the events sent since the last clear
    pipeline,     \* ecs::Pipeline: pre_update_ and logic_ in registration order
    phase,        \* position of main()'s loop body (SpecFrame)
    idx,          \* index of the next step within the phase
    frame,        \* history: number of the frame being run
    frame_dt,     \* float dt = GetFrameTime() of the frame being run
    trace,        \* history: the systems called in this frame, with their dt
    accumulator,  \* float accumulator of main()
    time_sum,     \* history: exact sum of the frame times accumulated so far
    steps,        \* history: number of physics sub-steps made so far
    record,       \* InputRecord resource: the keys pressed this frame
    input,        \* PlayerInput component of the player
    pstate,       \* PlayerState component of the player
    deferred,     \* world.deferred(): the queued create_with commands
    begin,        \* history: entities, handles and bodies when the frame began,
                  \* and the platforms requested since
    sent,         \* history: the events sent in this frame, per queue, and the
                  \* number of events this frame's flush cleared
    heard,        \* history: what AudioSystem::Update read in this frame
    load,         \* history: the last SceneLoader::load_from_string call
                  \* since the scene was unloaded
    twin,         \* a second character fed the same calls (SpecTwin)
    velocity,     \* vertical velocity of the player's CharacterVirtual, and what the motor last did to it
    built,        \* history: the PlatformBuilderSystem calls on the PlayerState
    poses,        \* body pose and transforms of every entity
    query,        \* history: the last collision-layer query and its answers
    panel         \* DebugPanel resource: its sections

charVars == <<state, intent, prev, call, run_sum, run_len>>
tickVars == <<pc, jump_events, land_events>>
ecsVars  == <<alive, comps, rb_type, handle, bodies, ctx, last>>
evVars   == <<queue, qlog>>
frameVars == <<pipeline, phase, idx, frame, frame_dt, trace, accumulator,
               time_sum, steps, record, input, pstate, deferred, begin, sent,
               heard>>
restVars == <<load, twin, built, poses, query, panel>>
vars     == <<state, intent, prev, call, run_sum, run_len, pc, jump_events,
              land_events, alive, comps, rb_type, handle, bodies, ctx, last,
              queue, qlog, pipeline, phase, idx, frame, frame_dt, trace,
              accumulator, time_sum, steps, record, input, pstate, deferred,
              begin, sent, heard, load, twin, velocity, built, poses, query,
              panel>>

-----------------------------------------------------------------------------
(* float32 arithmetic on the 2^-29 s grid *)

\* 2^24: a float32 mantissa holds 24 significant bits
MantissaLimit == 16777216

\* a float32 value m * 2^e units, written mantissa and exponent
F32(m, e) == m * (2 ^ e)

RECURSIVE Quantum(_)
\* spacing of the float32 values around the non-negative integer n
Quantum(n) == IF n < MantissaLimit THEN 1 ELSE 2 * Quantum(n \div 2)

\* round-to-nearest, ties-to-even, of the exact value n to float32
FloatRound(n) ==
    LET q    == Quantum(n)
        down == (n \div q) * q
        r    == n - down
    IN  IF 2 * r < q THEN down
        ELSE IF 2 * r > q THEN down + q
        ELSE IF (down \div q) % 2 = 0 THEN down ELSE down + q

\* float operator+ : state.air_time += dt
FAdd(a, b) == FloatRound(a + b)

-----------------------------------------------------------------------------
(* CharacterState and apply_state *)

Grounded == "Grounded"
Airborne == "Airborne"

\* 0.2f
CoyoteWindow == F32(13421773, 3)
\* impulse of the first jump, 12.0f
FirstJumpImpulse == 12
\* impulse of the second (air) jump, 10.0f
SecondJumpImpulse == 10
\* jump_count < 2
MaxJumps == 2

\* CharacterState{}
DefaultState ==
    [mode |-> Grounded, jump_count |-> 0, air_time |-> 0, jump_impulse |-> 0]

\* CharacterIntent{} (move_dir, look_dir and sprint_requested are not read
\* by the state machine)
DefaultIntent == [jump_requested |-> FALSE]

\* faulty variant: the stale impulse of the previous tick is kept
ClearImpulse_Skip(s) == s

\* state.jump_impulse = 0.0f;
ClearImpulse(s) == [s EXCEPT !.jump_impulse = 0]

\* faulty variant: the airborne branch assigns dt instead of adding it
GroundUpdate_Assign(on_ground, dt, s) ==
    IF on_ground
    THEN [s EXCEPT !.mode = Grounded, !.jump_count = 0, !.air_time = 0]
    ELSE [s EXCEPT !.mode = Airborne, !.air_time = dt]

\* faulty variant: ground contact forgets to reset the jump count
GroundUpdate_NoReset(on_ground, dt, s) ==
    IF on_ground
    THEN [s EXCEPT !.mode = Grounded, !.air_time = 0]
    ELSE [s EXCEPT !.mode = Airborne, !.air_time = FAdd(s.air_time, dt)]

\* if (on_ground) {...} else {...}
GroundUpdate(on_ground, dt, s) ==
    IF on_ground
    THEN [s EXCEPT !.mode = Grounded, !.jump_count = 0, !.air_time = 0]
    ELSE [s EXCEPT !.mode = Airborne, !.air_time = FAdd(s.air_time, dt)]

\* bool can_coyote = (state.jump_count == 0 && state.air_time < 0.2f);
CanCoyote(s) == s.jump_count = 0 /\ s.air_time < CoyoteWindow

\* faulty variant: off-by-one in the jump budget
CanJump_OffByOne(on_ground, s) ==
    on_ground \/ CanCoyote(s) \/ s.jump_count <= MaxJumps

\* bool can_jump = on_ground || can_coyote || (state.jump_count < 2);
CanJump(on_ground, s) ==
    on_ground \/ CanCoyote(s) \/ s.jump_count < MaxJumps

\* faulty variant: every jump gets the first jump's impulse
JumpImpulse_AlwaysFirst(s) == FirstJumpImpulse

\* (state.jump_count == 0) ? 12.0f : 10.0f
JumpImpulse(s) ==
    IF s.jump_count = 0 THEN FirstJumpImpulse ELSE SecondJumpImpulse

\* faulty variant: the coyote jump consumes one charge only
FireJump_SingleCharge(on_ground, s) ==
    [s EXCEPT !.jump_impulse = JumpImpulse(s), !.jump_count = s.jump_count + 1]

\* body of if (intent.jump_requested && can_jump) {...}
FireJump(on_ground, s) ==
    LET c == IF ~on_ground /\ s.jump_count = 0 THEN 1 ELSE s.jump_count
    IN  [s EXCEPT !.jump_impulse = JumpImpulse(s), !.jump_count = c + 1]

\* faulty variant: a jump fires without a request
JumpFires_NoRequest(on_ground, it, s) == CanJump(on_ground, s)

\* intent.jump_requested && can_jump
JumpFires(on_ground, it, s) == it.jump_requested /\ CanJump(on_ground, s)

\* CharacterStateSystem::apply_state
apply_state(on_ground, dt, it, s) ==
    LET s1 == GroundUpdate(on_ground, dt, ClearImpulse(s))
    IN  IF JumpFires(on_ground, it, s1) THEN FireJump(on_ground, s1) ELSE s1

-----------------------------------------------------------------------------
(* The ECS world and the Jolt body table *)

\* entity ids the world hands out
MaxEntities == 2

Entities == 1..MaxEntities

\* body ids: every entity holds at most one body, so the table (1024 bodies
\* in PhysicsSystem::Init) never fills within MaxEntities
BodyIds == 1..MaxEntities

\* JPH::BodyID() of an entity without RigidBodyHandle
NoBody == 0

\* enum class BodyType
BodyTypes == {"Static", "Kinematic", "Dynamic"}

\* PlayerInput{} and InputRecord{}: nothing pressed
NoInput == [jump |-> FALSE, plant_platform |-> FALSE]

\* PlayerState{}
DefaultPlayerState == [build_cooldown |-> 0, trigger_was_down |-> FALSE]

\* faulty variant: the motor is registered before the platform builder
MainPipeline_MotorEarly ==
    [pre_update |-> <<"input_gather", "player_input">>,
     logic |-> <<"camera", "character_input", "character_state",
                 "character_motor", "platform_builder">>,
     queues |-> FALSE]

\* faulty variant: the state machine is registered before the intent is
\* written
MainPipeline_StateEarly ==
    [pre_update |-> <<"input_gather", "player_input">>,
     logic |-> <<"camera", "character_state", "character_input",
                 "platform_builder", "character_motor">>,
     queues |-> FALSE]

\* the pipeline main() configures: no event bus, no audio
MainPipeline ==
    [pre_update |-> <<"input_gather", "player_input">>,
     logic |-> <<"camera", "character_input", "character_state",
                 "platform_builder", "character_motor">>,
     queues |-> FALSE]

\* the pipeline the modules build when installed in the order their headers
\* require: EventBusModule, InputModule, CameraModule, CharacterModule::install,
\* AudioModule, BuilderModule, CharacterModule::install_motor
ModulePipeline ==
    [pre_update |-> <<"flush_all", "input_gather", "player_input">>,
     logic |-> <<"camera", "character_input", "character_state", "audio",
                 "platform_builder", "character_motor">>,
     queues |-> TRUE]

\* AudioSystem::Update has not run in the frame: nothing read, no PlaySound
NoneHeard == [jump |-> <<>>, land |-> FALSE, sounds |-> <<>>]

\* main() before its loop: float accumulator = 0.0f; nothing run yet
NoFrame ==
    /\ pipeline = MainPipeline
    /\ phase = "begin"
    /\ idx = 1
    /\ frame = 0
    /\ frame_dt = 0
    /\ trace = <<>>
    /\ accumulator = 0
    /\ time_sum = 0
    /\ steps = 0
    /\ record = NoInput
    /\ input = NoInput
    /\ pstate = DefaultPlayerState
    /\ deferred = <<>>
    /\ begin = [alive |-> {}, handle |-> [e \in Entities |-> NoBody],
                bodies |-> [b \in BodyIds |-> "free"], requested |-> 0]
    /\ sent = [jump |-> <<>>, land |-> <<>>, flushed |-> 0]
    /\ heard = NoneHeard

\* no scene loaded, no twin run, no pose, no query, an empty panel
\* a DebugPanel as constructed: sections_ is empty; calls is the history of
\* the watch calls made on it
NoPanel == [sections |-> <<>>, calls |-> <<>>]

\* no PlatformBuilderSystem call was made on the PlayerState yet
NoBuilt ==
    [calls |-> 0, down |-> FALSE, edge |-> FALSE, cooldown |-> 0,
     hold_plants |-> 0, missed |-> FALSE, expired |-> FALSE]

\* a CharacterVirtual as constructed: at rest.  set is the vertical velocity
\* last given to SetLinearVelocity, from the velocity gravity was taken off
\* in the motor's last run (0 when it took none off)
NoVelocity == [set |-> 0, from |-> 0]

NoRest ==
    /\ load = [made |-> FALSE]
    /\ twin = [b |-> DefaultState, other |-> DefaultState, turn |-> "a",
               on_ground |-> TRUE, dt |-> 0, intent |-> DefaultIntent]
    /\ poses = <<>>
    /\ query = [made |-> FALSE]
    /\ panel = NoPanel
    /\ velocity = NoVelocity
    /\ built = NoBuilt

\* no call made on the queue yet
NoQueueCall ==
    [op |-> "none", arg |-> 0, before |-> <<>>, read |-> <<>>, empty |-> TRUE,
     prev_op |-> "none", prev_read |-> <<>>, sent |-> <<>>]

\* no structural operation made yet
NoOp ==
    [op |-> "none", e |-> 0, handle_before |-> NoBody,
     bodies_before |-> [b \in BodyIds |-> "free"], calls |-> <<>>,
     world_before |-> [alive |-> {}, comps |-> [e \in Entities |-> {}],
                       handle |-> [e \in Entities |-> NoBody]],
     wrote |-> {}, poses_before |-> <<>>]

-----------------------------------------------------------------------------
(* Calls of apply_state *)

\* airborne calls are made while air_time is below this (0.559 s)
MaxAirTime == 300000000

\* frame times handed to apply_state: 0.016f (the unit tests' dt) and 0.1f
DtSet == {F32(8589935, 0), F32(13421773, 2)}

\* a stale jump_impulse left by an earlier frame (unit test, 99.0f)
StaleImpulse == 99

\* no call made yet; air_jumps counts the jumps fired in the run of airborne
\* calls under way, ground_jump tells whether the last grounded call fired
NoCall ==
    [made |-> FALSE, on_ground |-> TRUE, dt |-> 0, jump_requested |-> FALSE,
     air_jumps |-> 0, ground_jump |-> FALSE]

\* the ECS world and the event queues before anything is spawned or sent
InitWorld ==
    /\ pc = "idle"
    /\ jump_events = <<>>
    /\ land_events = <<>>
    /\ alive = {}
    /\ comps = [e \in Entities |-> {}]
    /\ rb_type = [e \in Entities |-> "None"]
    /\ handle = [e \in Entities |-> NoBody]
    /\ bodies = [b \in BodyIds |-> "free"]
    /\ ctx = TRUE
    /\ last = NoOp
    /\ queue = <<>>
    /\ qlog = NoQueueCall
    /\ NoRest
    /\ NoFrame

\* CharacterState{} and CharacterIntent{} as constructed
Init ==
    /\ state = DefaultState
    /\ intent = DefaultIntent
    /\ prev = DefaultState
    /\ call = NoCall
    /\ run_sum = 0
    /\ run_len = 0
    /\ InitWorld

\* CharacterState values a caller may hand to apply_state: the unit tests
\* set mode, jump_count, air_time (0.1f, 0.5f, 0.8f) and jump_impulse freely
AnyStates ==
    [mode : {Grounded, Airborne},
     jump_count : 0..MaxJumps,
     air_time : {0, F32(13421773, 2), F32(1, 28), F32(13421773, 5)},
     jump_impulse : {0, SecondJumpImpulse, FirstJumpImpulse, StaleImpulse}]

InitAny ==
    /\ state \in AnyStates
    /\ intent = DefaultIntent
    /\ prev = state
    /\ call = NoCall
    /\ run_sum = state.air_time
    /\ run_len = 0
    /\ InitWorld

\* the bookkeeping of one apply_state call on the player's CharacterState
Record(on_ground, dt, it) ==
    /\ state' = apply_state(on_ground, dt, it, state)
    /\ prev' = state
    /\ call' = [made |-> TRUE, on_ground |-> on_ground, dt |-> dt,
                jump_requested |-> it.jump_requested,
                air_jumps |->
                    IF on_ground THEN 0
                    ELSE IF state'.jump_impulse > 0 THEN call.air_jumps + 1
                    ELSE call.air_jumps,
                ground_jump |->
                    IF on_ground THEN state'.jump_impulse > 0
                    ELSE call.ground_jump]
    /\ run_sum' = IF on_ground THEN 0 ELSE run_sum + dt
    /\ run_len' = IF on_ground THEN 0 ELSE run_len + 1

\* CharacterStateSystem::apply_state(on_ground, dt, intent, state), called
\* directly with a caller-built intent
ApplyStateCall ==
    \E on_ground \in BOOLEAN, dt \in DtSet, jr \in BOOLEAN :
        /\ on_ground \/ state.air_time < MaxAirTime
        /\ intent' = [jump_requested |-> jr]
        /\ Record(on_ground, dt, intent')
        /\ UNCHANGED <<tickVars, ecsVars, evVars, frameVars, restVars, velocity>>

Next == ApplyStateCall

Spec == Init /\ [][Next]_vars

SpecAny == InitAny /\ [][Next]_vars

-----------------------------------------------------------------------------
(* One frame of the character pipeline: EventBusModule::install adds the     *)
(* flush as first pre-update step, CharacterModule::install adds            *)
(* CharacterInputSystem::Update and CharacterStateSystem::Update to logic.  *)

\* the player character of the scene
Player == 1

\* JPH::CharacterVirtual::EGroundState
GroundStates == {"OnGround", "OnSteepGround", "NotSupported", "InAir"}

\* components of the player once SpawnScene ran with the hooks registered
PlayerComps ==
    {"LocalTransform", "WorldTransform", "MeshRenderer", "PlayerTag",
     "PlayerInput", "PlayerState", "CharacterControllerConfig",
     "CharacterIntent", "CharacterState", "CharacterHandle", "WorldTag"}

\* components of a platform: SpawnScene and create_with give the same
PlatformComps ==
    {"LocalTransform", "WorldTransform", "MeshRenderer", "BoxCollider",
     "RigidBodyConfig", "WorldTag"}

InitTick ==
    /\ state = DefaultState
    /\ intent = DefaultIntent
    /\ prev = DefaultState
    /\ call = NoCall
    /\ run_sum = 0
    /\ run_len = 0
    /\ pc = "flush_all"
    /\ jump_events = <<>>
    /\ land_events = <<>>
    /\ alive = {Player}
    /\ comps = [e \in Entities |-> IF e = Player THEN PlayerComps ELSE {}]
    /\ rb_type = [e \in Entities |-> "None"]
    /\ handle = [e \in Entities |-> NoBody]
    /\ bodies = [b \in BodyIds |-> "free"]
    /\ ctx = TRUE
    /\ last = NoOp
    /\ queue = <<>>
    /\ qlog = NoQueueCall
    /\ NoRest
    /\ NoFrame

\* EventRegistry::flush_all: Events<T>::clear on every registered queue
FlushAll ==
    /\ pc = "flush_all"
    /\ jump_events' = <<>>
    /\ land_events' = <<>>
    /\ pc' = "character_input"
    /\ UNCHANGED <<charVars, ecsVars, evVars, frameVars, restVars, velocity>>

\* CharacterInputSystem::Update: intent.jump_requested = input.jump, for
\* the entities with PlayerTag, PlayerInput and CharacterIntent (the
\* MainCamera resource is set at startup); jump is this frame's
\* PlayerInput.jump
CharacterInputUpdate ==
    /\ pc = "character_input"
    /\ \E jump \in BOOLEAN :
          intent' = IF {"PlayerTag", "PlayerInput", "CharacterIntent"}
                           \subseteq comps[Player]
                    THEN [jump_requested |-> jump]
                    ELSE intent
    /\ pc' = "character_state"
    /\ UNCHANGED <<state, prev, call, run_sum, run_len, jump_events,
                   land_events, ecsVars, evVars, frameVars, restVars, velocity>>

\* CharacterStateSystem::Update: apply_state on every entity with
\* CharacterHandle, CharacterIntent and CharacterState; nothing is sent
CharacterStateUpdate ==
    /\ pc = "character_state"
    /\ \E g \in GroundStates, dt \in DtSet :
          /\ g = "OnGround" \/ state.air_time < MaxAirTime
          /\ IF {"CharacterHandle", "CharacterIntent", "CharacterState"}
                    \subseteq comps[Player]
             THEN Record(g = "OnGround", dt, intent)
             ELSE UNCHANGED <<state, prev, call, run_sum, run_len>>
    /\ pc' = "flush_all"
    /\ UNCHANGED <<intent, jump_events, land_events, ecsVars, evVars, frameVars, restVars, velocity>>

NextTick == FlushAll \/ CharacterInputUpdate \/ CharacterStateUpdate

SpecTick == InitTick /\ [][NextTick]_vars

-----------------------------------------------------------------------------
(* Rigid-body lifecycle: PhysicsSystem::Register *)

FreeIds == {b \in BodyIds : bodies[b] = "free"}

\* one BodyInterface call on the body table.  AddBody puts a created body
\* into the broad phase, RemoveBody takes it out again, DestroyBody frees a
\* body that is out of the broad phase; destroying a body still in the broad
\* phase leaves a dangling broad-phase reference
JoltCall(bs, c) ==
    CASE c.fn = "CreateBody" -> [bs EXCEPT ![c.id] = "created"]
      [] c.fn = "AddBody" ->
            [bs EXCEPT ![c.id] = IF @ = "created" THEN "added" ELSE @]
      [] c.fn = "RemoveBody" ->
            [bs EXCEPT ![c.id] = IF @ = "added" THEN "created" ELSE @]
      [] c.fn = "DestroyBody" ->
            [bs EXCEPT ![c.id] = IF @ = "created" THEN "free" ELSE "dangling"]

RECURSIVE JoltCalls(_, _)
\* a sequence of BodyInterface calls, first to last
JoltCalls(bs, cs) ==
    IF cs = <<>> THEN bs ELSE JoltCalls(JoltCall(bs, Head(cs)), Tail(cs))

\* faulty variant: the has<RigidBodyHandle> guard is missing
HookCreatesBody_NoGuard(e) == ctx

\* on_add<RigidBodyConfig>: if (w.has<RigidBodyHandle>(e)) return;
\*                          if (!ctx_ptr || !*ctx_ptr) return;
HookCreatesBody(e) == "RigidBodyHandle" \notin comps[e] /\ ctx

\* on_add<RigidBodyConfig>: bi.CreateBody(settings); bi.AddBody(body->GetID(), ...)
OnAddConfigCalls(id) ==
    <<[fn |-> "CreateBody", id |-> id], [fn |-> "AddBody", id |-> id]>>

\* faulty variant: the body is destroyed while still in the broad phase
OnRemoveHandleCalls_DestroyFirst(e) ==
    IF "RigidBodyHandle" \in comps[e] /\ ctx
    THEN <<[fn |-> "DestroyBody", id |-> handle[e]],
           [fn |-> "RemoveBody", id |-> handle[e]]>>
    ELSE <<>>

\* on_remove<RigidBodyHandle>: if (!ctx_ptr || !*ctx_ptr) return;
\*                             bi.RemoveBody(h.id); bi.DestroyBody(h.id);
OnRemoveHandleCalls(e) ==
    IF "RigidBodyHandle" \in comps[e] /\ ctx
    THEN <<[fn |-> "RemoveBody", id |-> handle[e]],
           [fn |-> "DestroyBody", id |-> handle[e]]>>
    ELSE <<>>

\* the history record of a structural operation on entity e
Op(name, e, calls) ==
    [op |-> name, e |-> e, handle_before |-> handle[e],
     bodies_before |-> bodies, calls |-> calls,
     world_before |-> [alive |-> alive, comps |-> comps, handle |-> handle],
     wrote |-> {}, poses_before |-> poses]

\* world.create()
CreateEntity(e) ==
    /\ e \notin alive
    /\ alive' = alive \cup {e}
    /\ last' = Op("create", e, <<>>)
    /\ UNCHANGED <<comps, rb_type, handle, bodies, ctx, charVars, tickVars, evVars, frameVars, restVars, velocity>>

\* world.add(e, RigidBodyConfig{type}) and the on_add<RigidBodyConfig> hook:
\* CreateBody, AddBody, w.add(e, RigidBodyHandle{id})
AddRigidBodyConfig(e, type) ==
    /\ e \in alive
    /\ rb_type' = [rb_type EXCEPT ![e] = type]
    /\ IF HookCreatesBody(e)
       THEN \E id \in FreeIds :
               /\ bodies' = JoltCalls(bodies, OnAddConfigCalls(id))
               /\ handle' = [handle EXCEPT ![e] = id]
               /\ comps' = [comps EXCEPT
                              ![e] = @ \cup {"RigidBodyConfig", "RigidBodyHandle"}]
               /\ last' = Op("add_config", e, OnAddConfigCalls(id))
       ELSE /\ comps' = [comps EXCEPT ![e] = @ \cup {"RigidBodyConfig"}]
            /\ last' = Op("add_config", e, <<>>)
            /\ UNCHANGED <<handle, bodies>>
    /\ UNCHANGED <<alive, ctx, charVars, tickVars, evVars, frameVars, restVars, velocity>>

\* the body table once the on_remove<RigidBodyHandle> hook ran for e
BodiesAfterHandleRemoved(e) == JoltCalls(bodies, OnRemoveHandleCalls(e))

\* world.remove<RigidBodyConfig>(e): no hook is registered for it
RemoveRigidBodyConfig(e) ==
    /\ e \in alive
    /\ "RigidBodyConfig" \in comps[e]
    /\ comps' = [comps EXCEPT ![e] = @ \ {"RigidBodyConfig"}]
    /\ rb_type' = [rb_type EXCEPT ![e] = "None"]
    /\ last' = Op("remove_config", e, <<>>)
    /\ UNCHANGED <<alive, handle, bodies, ctx, charVars, tickVars, evVars, frameVars, restVars, velocity>>

\* world.remove<RigidBodyHandle>(e) and the on_remove<RigidBodyHandle> hook
RemoveRigidBodyHandle(e) ==
    /\ e \in alive
    /\ "RigidBodyHandle" \in comps[e]
    /\ bodies' = BodiesAfterHandleRemoved(e)
    /\ comps' = [comps EXCEPT ![e] = @ \ {"RigidBodyHandle"}]
    /\ handle' = [handle EXCEPT ![e] = NoBody]
    /\ last' = Op("remove_handle", e, OnRemoveHandleCalls(e))
    /\ UNCHANGED <<alive, rb_type, ctx, charVars, tickVars, evVars, frameVars, restVars, velocity>>

\* world.destroy(e): every component is removed, the on_remove hooks fire
DestroyEntity(e) ==
    /\ e \in alive
    /\ bodies' = BodiesAfterHandleRemoved(e)
    /\ alive' = alive \ {e}
    /\ comps' = [comps EXCEPT ![e] = {}]
    /\ rb_type' = [rb_type EXCEPT ![e] = "None"]
    /\ handle' = [handle EXCEPT ![e] = NoBody]
    /\ last' = Op("destroy", e, OnRemoveHandleCalls(e))
    /\ UNCHANGED <<ctx, charVars, tickVars, evVars, frameVars, restVars, velocity>>

NextBody ==
    \/ \E e \in Entities : CreateEntity(e)
    \/ \E e \in Entities, type \in BodyTypes : AddRigidBodyConfig(e, type)
    \/ \E e \in Entities : RemoveRigidBodyConfig(e)
    \/ \E e \in Entities : RemoveRigidBodyHandle(e)
    \/ \E e \in Entities : DestroyEntity(e)

\* the world of main(): PhysicsContext set, hooks registered, no entity yet
SpecBody == Init /\ [][NextBody]_vars

-----------------------------------------------------------------------------
(* The systems with the PhysicsContext resource present or absent: the      *)
(* hooks above, PhysicsSystem::Update and CharacterMotorSystem::Update all  *)
(* begin with try_resource and return when it gives no context              *)

\* the entity SpawnScene makes after the player: a static platform
Platform == 2

\* the scene of SpawnScene, spawned with the context present (the hooks
\* attached a CharacterHandle and a body) or absent (the hooks returned),
\* and the resource holding a context or none by now
InitCtx ==
    /\ state = DefaultState
    /\ intent = DefaultIntent
    /\ prev = DefaultState
    /\ call = NoCall
    /\ run_sum = 0
    /\ run_len = 0
    /\ pc = "idle"
    /\ jump_events = <<>>
    /\ land_events = <<>>
    /\ queue = <<>>
    /\ qlog = NoQueueCall
    /\ NoRest
    /\ NoFrame
    /\ last = NoOp
    /\ alive = {Player, Platform}
    /\ rb_type = [e \in Entities |-> IF e = Platform THEN "Static" ELSE "None"]
    /\ ctx \in BOOLEAN
    /\ \E with_ctx \in BOOLEAN :
          /\ comps = [e \in Entities |->
                         IF e = Player
                         THEN IF with_ctx THEN PlayerComps
                              ELSE PlayerComps \ {"CharacterHandle"}
                         ELSE IF e = Platform
                         THEN IF with_ctx
                              THEN PlatformComps \cup {"RigidBodyHandle"}
                              ELSE PlatformComps
                         ELSE {}]
          /\ handle = [e \in Entities |->
                          IF e = Platform /\ with_ctx THEN 1 ELSE NoBody]
          /\ bodies = [b \in BodyIds |->
                          IF b = 1 /\ with_ctx THEN "added" ELSE "free"]

\* the entities PhysicsSystem::Update copies the body pose to:
\* each<RigidBodyHandle, WorldTransform, RigidBodyConfig>, Dynamic only
PoseReaders ==
    {e \in alive :
        /\ {"RigidBodyHandle", "WorldTransform", "RigidBodyConfig"}
               \subseteq comps[e]
        /\ rb_type[e] = "Dynamic"}

\* faulty variant: the context is used without the test
PhysicsUpdateSteps_NoGuard == TRUE

\* PhysicsSystem::Update: if (!ctx_ptr || !*ctx_ptr) return;
PhysicsUpdateSteps == ctx

\* PhysicsSystem::Update(world, dt): ctx.physics_system->Update, then the
\* pose of every dynamic body is written to its entity's transforms (the
\* poses themselves are not kept here, only who was written to)
PhysicsSystemUpdate ==
    /\ last' = [Op("physics_update", Player, <<>>) EXCEPT
                  !.calls = IF PhysicsUpdateSteps
                            THEN <<[fn |-> "Update", id |-> NoBody]>>
                            ELSE <<>>,
                  !.wrote = IF PhysicsUpdateSteps THEN PoseReaders ELSE {}]
    /\ UNCHANGED <<alive, comps, rb_type, handle, bodies, ctx, charVars,
                   tickVars, evVars, frameVars, restVars, velocity>>

\* the entities CharacterMotorSystem::Update moves:
\* each<CharacterHandle, CharacterIntent, CharacterState, WorldTransform>
Characters ==
    {e \in alive :
        {"CharacterHandle", "CharacterIntent", "CharacterState",
         "WorldTransform"} \subseteq comps[e]}

\* CharacterMotorSystem::Update(world, dt): if (!ctx_ptr || !*ctx_ptr)
\* return; else every character gets its velocity, is stepped with
\* ExtendedUpdate and, having a LocalTransform, its transforms written
CharacterMotorSystemUpdate ==
    /\ last' = [Op("motor_update", Player, <<>>) EXCEPT
                  !.calls = IF ctx /\ Characters # {}
                            THEN <<[fn |-> "ExtendedUpdate", id |-> NoBody]>>
                            ELSE <<>>,
                  !.wrote = IF ctx
                            THEN {e \in Characters :
                                     "LocalTransform" \in comps[e]}
                            ELSE {}]
    /\ UNCHANGED <<alive, comps, rb_type, handle, bodies, ctx, charVars,
                   tickVars, evVars, frameVars, restVars, velocity>>

NextCtx ==
    \/ \E e \in Entities : CreateEntity(e)
    \/ \E e \in Entities, type \in BodyTypes : AddRigidBodyConfig(e, type)
    \/ \E e \in Entities : RemoveRigidBodyConfig(e)
    \/ \E e \in Entities : RemoveRigidBodyHandle(e)
    \/ \E e \in Entities : DestroyEntity(e)
    \/ PhysicsSystemUpdate
    \/ CharacterMotorSystemUpdate

SpecCtx == InitCtx /\ [][NextCtx]_vars

-----------------------------------------------------------------------------
(* Events<T>: a queue driven directly through its four members *)

\* queue.send, read, empty and clear are called while the queue is shorter
\* than this
MaxQueueLen == 3

\* TestEvent{value}
TestValues == {1, 7, 42}

\* faulty variant: the new event goes to the front of the buffer
EventsSend_Front(buf, ev) == <<ev>> \o buf

\* void send(T event) { buffer_.push_back(std::move(event)); }
EventsSend(buf, ev) == Append(buf, ev)

\* const std::vector<T>& read() const { return buffer_; }
EventsRead(buf) == buf

\* bool empty() const { return buffer_.empty(); }
EventsEmpty(buf) == Len(buf) = 0

\* faulty variant: clear drops the oldest event only
EventsClear_PopFront(buf) == IF buf = <<>> THEN buf ELSE Tail(buf)

\* void clear() { buffer_.clear(); }
EventsClear(buf) == <<>>

\* the history record of one call on the queue
QueueCall(name, arg, since_clear) ==
    [op |-> name, arg |-> arg, before |-> queue,
     read |-> IF name = "read" THEN EventsRead(queue) ELSE qlog.read,
     empty |-> IF name = "empty" THEN EventsEmpty(queue) ELSE qlog.empty,
     prev_op |-> qlog.op, prev_read |-> qlog.read, sent |-> since_clear]

\* queue.send({v})
QueueSend(v) ==
    /\ Len(queue) < MaxQueueLen
    /\ queue' = EventsSend(queue, v)
    /\ qlog' = QueueCall("send", v, Append(qlog.sent, v))
    /\ UNCHANGED <<charVars, tickVars, ecsVars, frameVars, restVars, velocity>>

\* queue.read(): a const member, the buffer is left as it is
QueueRead ==
    /\ qlog' = QueueCall("read", 0, qlog.sent)
    /\ UNCHANGED <<queue, charVars, tickVars, ecsVars, frameVars, restVars, velocity>>

\* queue.empty(): a const member
QueueEmpty ==
    /\ qlog' = QueueCall("empty", 0, qlog.sent)
    /\ UNCHANGED <<queue, charVars, tickVars, ecsVars, frameVars, restVars, velocity>>

\* queue.clear()
QueueClear ==
    /\ queue' = EventsClear(queue)
    /\ qlog' = QueueCall("clear", 0, <<>>)
    /\ UNCHANGED <<charVars, tickVars, ecsVars, frameVars, restVars, velocity>>

NextEvents ==
    \/ \E v \in TestValues : QueueSend(v)
    \/ QueueRead
    \/ QueueEmpty
    \/ QueueClear

\* Events<TestEvent> queue; as constructed
SpecEvents == Init /\ [][NextEvents]_vars

-----------------------------------------------------------------------------
(* One iteration of main()'s loop: Pipeline::update, the fixed-step drain   *)
(* loop and Pipeline::render, for the player and the platforms it builds    *)

\* frames are begun while fewer than this have been
MaxFrames == 2

\* const float fixed_dt = 1.0f / 60.0f;
FixedDt == F32(8947849, 0)

\* state.build_cooldown = 0.25f;
BuildCooldown == F32(1, 27)

\* GetFrameTime(): 0.016f (less than fixed_dt) and 0.1f (several fixed_dt);
\* before the first frame was drawn no frame was timed, and it is 0
FrameDts == IF frame = 0 THEN DtSet \cup {0} ELSE DtSet

\* float operator- : accumulator -= fixed_dt, state.build_cooldown -= dt
FSub(a, b) ==
    LET d == a - b
    IN  IF d >= 0 THEN FloatRound(d) ELSE -FloatRound(-d)

\* the world after SpawnScene, with either pipeline registered
InitFrame ==
    /\ state = DefaultState
    /\ intent = DefaultIntent
    /\ prev = DefaultState
    /\ call = NoCall
    /\ run_sum = 0
    /\ run_len = 0
    /\ pc = "idle"
    /\ jump_events = <<>>
    /\ land_events = <<>>
    /\ alive = {Player}
    /\ comps = [e \in Entities |-> IF e = Player THEN PlayerComps ELSE {}]
    /\ rb_type = [e \in Entities |-> "None"]
    /\ handle = [e \in Entities |-> NoBody]
    /\ bodies = [b \in BodyIds |-> "free"]
    /\ ctx = TRUE
    /\ last = NoOp
    /\ queue = <<>>
    /\ qlog = NoQueueCall
    /\ NoRest
    /\ pipeline \in {MainPipeline, ModulePipeline}
    /\ phase = "begin"
    /\ idx = 1
    /\ frame = 0
    /\ frame_dt = 0
    /\ trace = <<>>
    /\ accumulator = 0
    /\ time_sum = 0
    /\ steps = 0
    /\ record = NoInput
    /\ input = NoInput
    /\ pstate = DefaultPlayerState
    /\ deferred = <<>>
    /\ begin = [alive |-> {Player}, handle |-> [e \in Entities |-> NoBody],
                bodies |-> [b \in BodyIds |-> "free"], requested |-> 0]
    /\ sent = [jump |-> <<>>, land |-> <<>>, flushed |-> 0]
    /\ heard = NoneHeard

\* sys(world, dt): the call is added to the frame's trace, with the value
\* the accumulator of main() has when the call is made
Called(name, dt) ==
    Append(trace, [name |-> name, dt |-> dt, acc |-> accumulator])

\* the step the loop of Pipeline::update is about to call
StepIs(ph, name) ==
    /\ phase = ph
    /\ idx <= Len(pipeline[ph])
    /\ pipeline[ph][idx] = name

\* faulty variant: the simulation follows the logic steps at once, with no
\* deferred flush in between
After_NoFlush(ph) ==
    IF idx < Len(pipeline[ph]) THEN [phase |-> ph, idx |-> idx + 1]
    ELSE IF ph = "pre_update" THEN [phase |-> "logic", idx |-> 1]
    ELSE [phase |-> "accumulate", idx |-> 1]

\* for (auto& sys : pre_update_) ...; for (auto& sys : logic_) ...; then the
\* deferred flush
After(ph) ==
    IF idx < Len(pipeline[ph]) THEN [phase |-> ph, idx |-> idx + 1]
    ELSE IF ph = "pre_update" THEN [phase |-> "logic", idx |-> 1]
    ELSE [phase |-> "flush", idx |-> 1]

Advance(ph) ==
    /\ phase' = After(ph).phase
    /\ idx' = After(ph).idx

\* the body table once world.destroy ran on every entity with WorldTag
BodiesAfterReset ==
    [b \in BodyIds |->
        IF \E e \in alive : "WorldTag" \in comps[e] /\ handle[e] = b
        THEN JoltCalls(bodies,
                 OnRemoveHandleCalls(CHOOSE e \in alive : handle[e] = b))[b]
        ELSE bodies[b]]

\* if (IsKeyPressed(KEY_R)) {...}: every entity with WorldTag is destroyed
\* (each component has WorldTag), the deferred queue is flushed (it is empty
\* between frames) and SpawnScene builds the player again
ResetWorld ==
    /\ bodies' = BodiesAfterReset
    /\ alive' = {Player}
    /\ comps' = [e \in Entities |->
                    IF e # Player THEN {}
                    ELSE IF ctx THEN PlayerComps
                    ELSE PlayerComps \ {"CharacterHandle"}]
    /\ rb_type' = [e \in Entities |-> "None"]
    /\ handle' = [e \in Entities |-> NoBody]
    /\ last' = NoOp
    /\ state' = DefaultState
    /\ intent' = DefaultIntent
    /\ prev' = DefaultState
    /\ call' = NoCall
    /\ run_sum' = 0
    /\ run_len' = 0
    /\ input' = NoInput
    /\ velocity' = NoVelocity
    /\ pstate' = DefaultPlayerState
    /\ UNCHANGED ctx

\* float dt = GetFrameTime(); the KEY_R reset; pipeline.update is entered
BeginFrame ==
    /\ phase = "begin"
    /\ frame < MaxFrames
    /\ \E dt \in FrameDts, reset \in BOOLEAN :
          /\ frame_dt' = dt
          /\ IF reset THEN ResetWorld
             ELSE UNCHANGED <<charVars, alive, comps, rb_type, handle, bodies,
                              ctx, last, input, pstate, velocity>>
    /\ frame' = frame + 1
    /\ trace' = <<>>
    /\ phase' = "pre_update"
    /\ idx' = 1
    /\ begin' = [alive |-> alive', handle |-> handle', bodies |-> bodies',
                 requested |-> 0]
    /\ sent' = [jump |-> <<>>, land |-> <<>>, flushed |-> 0]
    /\ heard' = NoneHeard
    /\ UNCHANGED <<tickVars, evVars, restVars, pipeline, accumulator, time_sum,
                   steps, record, deferred>>

\* faulty variant: register_queue keeps only the latest flush function, so
\* only the queue registered last is cleared
RegistryFlushAll_LastOnly(jq, lq) == [jump |-> jq, land |-> EventsClear(lq)]

\* EventRegistry::flush_all: for (auto& fn : flush_fns_) fn(); each fn
\* clears the queue register_queue made it for
RegistryFlushAll(jq, lq) == [jump |-> EventsClear(jq), land |-> EventsClear(lq)]

\* pre-update step of EventBusModule: w.resource<EventRegistry>().flush_all()
FrameFlushAll ==
    /\ StepIs("pre_update", "flush_all")
    /\ jump_events' = RegistryFlushAll(jump_events, land_events).jump
    /\ land_events' = RegistryFlushAll(jump_events, land_events).land
    /\ sent' = [sent EXCEPT !.flushed = Len(jump_events) + Len(land_events)]
    /\ trace' = Called("flush_all", frame_dt)
    /\ Advance("pre_update")
    /\ UNCHANGED pc
    /\ UNCHANGED <<pipeline, frame, frame_dt, accumulator, time_sum, steps,
                   record, input, pstate, deferred, begin, heard, charVars,
                   ecsVars, evVars, restVars, velocity>>

\* InputGatherSystem::Update: the InputRecord resource takes the keys and
\* buttons of this frame (KEY_SPACE, and KEY_E / the mouse / the trigger);
\* the build key is pressed while an entity id is left for the platform
InputGather ==
    /\ StepIs("pre_update", "input_gather")
    /\ \E space \in BOOLEAN, build \in BOOLEAN :
          /\ build => Cardinality(alive) + Len(deferred) < MaxEntities
          /\ record' = [jump |-> space, plant_platform |-> build]
    /\ trace' = Called("input_gather", frame_dt)
    /\ Advance("pre_update")
    /\ UNCHANGED <<pipeline, frame, frame_dt, accumulator, time_sum, steps,
                   input, pstate, deferred, begin, sent, heard, charVars,
                   tickVars, ecsVars, evVars, restVars, velocity>>

\* PlayerInputSystem::Update: world.single<PlayerInput> resets the per-frame
\* fields and sets jump and plant_platform from the record
PlayerInputUpdate ==
    /\ StepIs("pre_update", "player_input")
    /\ input' = IF "PlayerInput" \in comps[Player] THEN record ELSE input
    /\ trace' = Called("player_input", frame_dt)
    /\ Advance("pre_update")
    /\ UNCHANGED <<pipeline, frame, frame_dt, accumulator, time_sum, steps,
                   record, pstate, deferred, begin, sent, heard, charVars,
                   tickVars, ecsVars, evVars, restVars, velocity>>

\* CameraSystem::Update: writes the view directions of MainCamera
CameraUpdate ==
    /\ StepIs("logic", "camera")
    /\ trace' = Called("camera", frame_dt)
    /\ Advance("logic")
    /\ UNCHANGED <<pipeline, frame, frame_dt, accumulator, time_sum, steps,
                   record, input, pstate, deferred, begin, sent, heard,
                   charVars, tickVars, ecsVars, evVars, restVars, velocity>>

\* CharacterInputSystem::Update as a logic step of the frame
FrameCharacterInput ==
    /\ StepIs("logic", "character_input")
    /\ intent' = IF {"PlayerTag", "PlayerInput", "CharacterIntent"}
                        \subseteq comps[Player]
                 THEN [jump_requested |-> input.jump]
                 ELSE intent
    /\ trace' = Called("character_input", frame_dt)
    /\ Advance("logic")
    /\ UNCHANGED <<state, prev, call, run_sum, run_len, pipeline, frame,
                   frame_dt, accumulator, time_sum, steps, record, input,
                   pstate, deferred, begin, sent, heard, tickVars, ecsVars,
                   evVars, restVars, velocity>>

\* CharacterStateSystem::Update as a logic step of the frame
FrameCharacterState ==
    /\ StepIs("logic", "character_state")
    /\ \E g \in GroundStates :
          IF {"CharacterHandle", "CharacterIntent", "CharacterState"}
                 \subseteq comps[Player]
          THEN Record(g = "OnGround", frame_dt, intent)
          ELSE UNCHANGED <<state, prev, call, run_sum, run_len>>
    /\ trace' = Called("character_state", frame_dt)
    /\ Advance("logic")
    /\ UNCHANGED <<intent, pipeline, frame, frame_dt, accumulator, time_sum,
                   steps, record, input, pstate, deferred, begin, sent,
                   heard, tickVars, ecsVars, evVars, restVars, velocity>>

\* Events<T>::send on a registered queue, called once the state machine has
\* run and before the next logic step: events.hpp names CharacterStateSystem
\* as the emitter, of a JumpEvent when a jump fires and of a LandEvent on
\* the Airborne -> Grounded transition
SendEvent ==
    /\ phase = "logic"
    /\ pipeline.queues
    /\ trace # <<>>
    /\ trace[Len(trace)].name = "character_state"
    /\ \E q \in {"jump", "land"} :
          /\ sent[q] = <<>>
          /\ q = "jump" => state.jump_impulse > 0
          /\ q = "land" => prev.mode = Airborne /\ state.mode = Grounded
          /\ LET ev == IF q = "jump"
                       THEN [entity |-> Player, frame |-> frame,
                             jump_number |-> state.jump_count]
                       ELSE [entity |-> Player, frame |-> frame]
             IN  /\ jump_events' = IF q = "jump" THEN EventsSend(jump_events, ev)
                                   ELSE jump_events
                 /\ land_events' = IF q = "land" THEN EventsSend(land_events, ev)
                                   ELSE land_events
                 /\ sent' = [sent EXCEPT ![q] = Append(@, ev)]
    /\ UNCHANGED pc
    /\ UNCHANGED <<pipeline, phase, idx, frame, frame_dt, trace, accumulator,
                   time_sum, steps, record, input, pstate, deferred, begin,
                   heard, charVars, ecsVars, evVars, restVars, velocity>>

\* for (const auto& ev : evts->read()) PlaySound((ev.jump_number == 1)
\*     ? audio->snd_jump : audio->snd_jump2);
JumpSounds(buf) ==
    [i \in 1..Len(EventsRead(buf)) |->
        IF EventsRead(buf)[i].jump_number = 1 THEN "snd_jump" ELSE "snd_jump2"]

\* faulty variant: one land sound per LandEvent
LandSounds_PerEvent(buf) == [i \in 1..Len(buf) |-> "snd_land"]

\* if (!evts->empty()) PlaySound(audio->snd_land);
LandSounds(buf) == IF ~EventsEmpty(buf) THEN <<"snd_land">> ELSE <<>>

\* what AudioSystem::Update reads and plays
Heard(jq, lq) ==
    [jump |-> EventsRead(jq), land |-> ~EventsEmpty(lq),
     sounds |-> JumpSounds(jq) \o LandSounds(lq)]

\* AudioSystem::Update: reads Events<JumpEvent> and tests Events<LandEvent>
AudioUpdate ==
    /\ StepIs("logic", "audio")
    /\ heard' = Heard(jump_events, land_events)
    /\ trace' = Called("audio", frame_dt)
    /\ Advance("logic")
    /\ UNCHANGED <<pipeline, frame, frame_dt, accumulator, time_sum, steps,
                   record, input, pstate, deferred, begin, sent, charVars,
                   tickVars, ecsVars, evVars, restVars, velocity>>

\* faulty variant: the request is dropped
DeferCreate_Lost(q) == q

\* world.deferred().create_with(...): the command is queued, the world is
\* not touched
DeferCreate(q) == Append(q, "create_with")

\* input.trigger_val in tenths: released, half way, pulled
TriggerVals == {0, 5, 10}

\* the 0.5f of input.trigger_val > 0.5f, in tenths
TriggerThreshold == 5

\* the keyboard sets trigger_val = 1.0f with plant_platform, else 0.0f
KeyTrigger(in) == IF in.plant_platform THEN 10 ELSE 0

\* bool trigger_is_down = input.plant_platform || input.trigger_val > 0.5f;
TriggerIsDown(plant_platform, trigger_val) ==
    plant_platform \/ trigger_val > TriggerThreshold

\* if (state.build_cooldown > 0) state.build_cooldown -= dt;
CooledDown(ps, dt) ==
    IF ps.build_cooldown > 0 THEN FSub(ps.build_cooldown, dt)
    ELSE ps.build_cooldown

\* faulty variant: the trigger plants whenever it is down
TriggerPressed_Level(ps, trigger_is_down) == trigger_is_down

\* bool trigger_pressed = trigger_is_down && !state.trigger_was_down;
TriggerPressed(ps, trigger_is_down) == trigger_is_down /\ ~ps.trigger_was_down

\* if (trigger_pressed && state.build_cooldown <= 0)
Plants(ps, trigger_is_down, dt) ==
    TriggerPressed(ps, trigger_is_down) /\ CooledDown(ps, dt) <= 0

\* the PlayerState the call leaves: state.trigger_was_down =
\* trigger_is_down; state.build_cooldown = 0.25f when a platform is planted
Built(ps, trigger_is_down, dt) ==
    [build_cooldown |-> IF Plants(ps, trigger_is_down, dt) THEN BuildCooldown
                        ELSE CooledDown(ps, dt),
     trigger_was_down |-> trigger_is_down]

\* PlatformBuilderSystem::Update: cooldown, rising edge of the trigger, and
\* world.deferred().create_with(...) when a platform is planted
PlatformBuilderUpdate ==
    /\ StepIs("logic", "platform_builder")
    /\ IF {"PlayerTag", "WorldTransform", "PlayerInput", "PlayerState"}
              \subseteq comps[Player]
       THEN LET trigger_is_down ==
                    TriggerIsDown(input.plant_platform, KeyTrigger(input))
                plants == Plants(pstate, trigger_is_down, frame_dt)
            IN  /\ pstate' = Built(pstate, trigger_is_down, frame_dt)
                /\ deferred' = IF plants THEN DeferCreate(deferred)
                               ELSE deferred
                /\ begin' = [begin EXCEPT
                               !.requested = IF plants THEN @ + 1 ELSE @]
       ELSE UNCHANGED <<pstate, deferred, begin>>
    /\ trace' = Called("platform_builder", frame_dt)
    /\ Advance("logic")
    /\ UNCHANGED <<pipeline, frame, frame_dt, accumulator, time_sum, steps,
                   record, input, sent, heard, charVars, tickVars, ecsVars,
                   evVars, restVars, velocity>>

\* vertical velocities are float32 values in units of 2^-26 m/s
Mps(n) == n * (2 ^ 26)

\* float gravity = (vertical_vel < 0.0f) ? -40.0f : -25.0f;
FallGravity == 40
RiseGravity == 25

\* the float product of a gravity and dt (dt in units of 2^-29 s), in
\* units of 2^-26 m/s; for the frame times of the model the product is 0
\* or at least 0.4, where every float32 is a whole number of units
GravityDt(g, dt) ==
    IF g % 8 = 0 THEN FloatRound((g \div 8) * dt)
    ELSE FloatRound(g * dt) \div 8

\* faulty variant: gravity is looked at before the jump impulse
VerticalVel_GravityFirst(vy, s, dt) ==
    IF s.mode # Grounded
    THEN FSub(vy, GravityDt(IF vy < 0 THEN FallGravity ELSE RiseGravity, dt))
    ELSE IF s.jump_impulse > 0 THEN Mps(s.jump_impulse)
    ELSE 0

\* if (state.jump_impulse > 0.0f) vertical_vel = state.jump_impulse;
\* else if (!on_ground) vertical_vel += gravity * dt;
\* else vertical_vel = 0.0f;
VerticalVel(vy, s, dt) ==
    IF s.jump_impulse > 0 THEN Mps(s.jump_impulse)
    ELSE IF s.mode # Grounded
    THEN FSub(vy, GravityDt(IF vy < 0 THEN FallGravity ELSE RiseGravity, dt))
    ELSE 0

\* the branch of the motor that reads the velocity
TakesGravity(s) == s.jump_impulse = 0 /\ s.mode # Grounded

\* CharacterMotorSystem::Update: without a context it returns; the
\* character's velocity is read (GetLinearVelocity gives what was set last,
\* or 0 when a contact in ExtendedUpdate stopped the vertical motion), its
\* vertical part is set anew and the character is stepped with
\* ExtendedUpdate (the horizontal part and the pose are not kept here)
CharacterMotorUpdate ==
    /\ StepIs("logic", "character_motor")
    /\ IF ctx /\ Player \in Characters
       THEN \E current_vel \in {velocity.set, 0} :
               velocity' =
                   [set |-> VerticalVel(current_vel, state, frame_dt),
                    from |-> IF TakesGravity(state) THEN current_vel ELSE 0]
       ELSE UNCHANGED velocity
    /\ trace' = Called("character_motor", frame_dt)
    /\ Advance("logic")
    /\ UNCHANGED <<pipeline, frame, frame_dt, accumulator, time_sum, steps,
                   record, input, pstate, deferred, begin, sent, heard,
                   charVars, tickVars, ecsVars, evVars, restVars>>

\* the command create_with(LocalTransform, WorldTransform, MeshRenderer,
\* BoxCollider, RigidBodyConfig{Static}, WorldTag) applied by the flush: the
\* entity e is made, the components are added and the on_add<RigidBodyConfig>
\* hook runs
CreateWith(e) ==
    /\ alive' = alive \cup {e}
    /\ rb_type' = [rb_type EXCEPT ![e] = "Static"]
    /\ IF HookCreatesBody(e)
       THEN \E id \in FreeIds :
               /\ bodies' = JoltCalls(bodies, OnAddConfigCalls(id))
               /\ handle' = [handle EXCEPT ![e] = id]
               /\ comps' = [comps EXCEPT ![e] =
                               PlatformComps \cup {"RigidBodyHandle"}]
               /\ last' = Op("add_config", e, OnAddConfigCalls(id))
       ELSE /\ comps' = [comps EXCEPT ![e] = PlatformComps]
            /\ last' = Op("add_config", e, <<>>)
            /\ UNCHANGED <<handle, bodies>>

\* world.deferred().flush(world), twice at the end of Pipeline::update: each
\* queued create_with makes its entity and adds its components in order,
\* the on_add<RigidBodyConfig> hook runs on the way (a frame queues at most
\* one command: there is one player)
DeferredFlush ==
    /\ phase = "flush"
    /\ IF deferred = <<>>
       THEN UNCHANGED <<alive, comps, rb_type, handle, bodies, last>>
       ELSE \E e \in Entities \ alive : CreateWith(e)
    /\ deferred' = <<>>
    /\ trace' = Called("deferred_flush", 0)
    /\ IF idx = 1 THEN idx' = 2 /\ phase' = "flush"
       ELSE idx' = 1 /\ phase' = "accumulate"
    /\ UNCHANGED <<ctx, pipeline, frame, frame_dt, accumulator, time_sum,
                   steps, record, input, pstate, begin, sent, heard,
                   charVars, tickVars, evVars, restVars, velocity>>

\* accumulator += dt;
Accumulate ==
    /\ phase = "accumulate"
    /\ accumulator' = FAdd(accumulator, frame_dt)
    /\ time_sum' = time_sum + frame_dt
    /\ phase' = "drain"
    /\ UNCHANGED <<pipeline, idx, frame, frame_dt, trace, steps, record,
                   input, pstate, deferred, begin, sent, heard, charVars,
                   tickVars, ecsVars, evVars, restVars, velocity>>

\* faulty variant: while (accumulator > 0)
Drains_WhilePositive(acc) == acc > 0

\* the condition of the drain loop: accumulator >= fixed_dt
Drains(acc) == acc >= FixedDt

\* while (accumulator >= fixed_dt) { pipeline.step_physics(world, fixed_dt);
\* accumulator -= fixed_dt; }: PhysicsSystem::Update and propagate_transforms
\* (body poses are not kept here)
PhysicsSubStep ==
    /\ phase = "drain"
    /\ Drains(accumulator)
    /\ trace' = Called("physics", FixedDt)
    /\ accumulator' = FSub(accumulator, FixedDt)
    /\ steps' = steps + 1
    /\ UNCHANGED <<pipeline, phase, idx, frame, frame_dt, time_sum, record,
                   input, pstate, deferred, begin, sent, heard, charVars,
                   tickVars, ecsVars, evVars, restVars, velocity>>

\* the drain loop is left; pipeline.render(world): sys(world, 0.0f)
Render ==
    /\ phase = "drain"
    /\ ~Drains(accumulator)
    /\ trace' = Called("render", 0)
    /\ phase' = "begin"
    /\ UNCHANGED <<pipeline, idx, frame, frame_dt, accumulator, time_sum,
                   steps, record, input, pstate, deferred, begin, sent,
                   heard, charVars, tickVars, ecsVars, evVars, restVars, velocity>>

NextFrame ==
    \/ BeginFrame
    \/ FrameFlushAll
    \/ InputGather
    \/ PlayerInputUpdate
    \/ CameraUpdate
    \/ FrameCharacterInput
    \/ FrameCharacterState
    \/ SendEvent
    \/ AudioUpdate
    \/ PlatformBuilderUpdate
    \/ CharacterMotorUpdate
    \/ DeferredFlush
    \/ Accumulate
    \/ PhysicsSubStep
    \/ Render

SpecFrame == InitFrame /\ [][NextFrame]_vars

-----------------------------------------------------------------------------
(* SceneLoader: load_from_string and unload.  json::parse is the library's; *)
(* a text is held as what the parse makes of it                             *)

\* parse_shape knows these
ShapeNames == {"Box", "Sphere", "Capsule"}

\* parse_body_type knows these
BodyNames == {"Static", "Dynamic", "Kinematic"}

\* the static box of the unit tests' MINIMAL_SCENE
BoxDef ==
    [transform |-> TRUE, box_collider |-> TRUE, mesh |-> "Box",
     rigid_body |-> "Static", character |-> FALSE, tags |-> <<"World">>]

\* the player capsule of MINIMAL_SCENE
PlayerDef ==
    [transform |-> TRUE, box_collider |-> FALSE, mesh |-> "Capsule",
     rigid_body |-> "none", character |-> TRUE, tags |-> <<"Player", "World">>]

\* entity objects: each member present or not, "Hexagon" and "Liquid" being
\* names the parsers do not know
AllDefs ==
    [transform : BOOLEAN, box_collider : BOOLEAN,
     mesh : {"none", "Box", "Capsule", "Hexagon"},
     rigid_body : {"none", "Static", "Liquid"},
     character : BOOLEAN,
     tags : {<<>>, <<"World">>, <<"Player", "World">>}]

\* the members in which two entity objects differ
Differences(d1, d2) == {f \in DOMAIN d1 : d1[f] # d2[f]}

\* the two objects of MINIMAL_SCENE and every object that differs from one
\* of them in one member
EntityDefs ==
    {d \in AllDefs :
        \E fix \in {BoxDef, PlayerDef} : Cardinality(Differences(d, fix)) <= 1}

RECURSIVE SeqsUpTo(_, _)
\* the sequences over S of length up to n
SeqsUpTo(S, n) ==
    IF n = 0 THEN {<<>>}
    ELSE LET shorter == SeqsUpTo(S, n - 1)
         IN  shorter \cup {Append(q, x) : q \in {r \in shorter : Len(r) = n - 1},
                                          x \in S}

\* the smallest member of a non-empty set of numbers
Lowest(S) == CHOOSE x \in S : \A y \in S : x <= y

\* the entity object names a shape or a body type the parsers do not know
Unknown(d) ==
    \/ d.mesh \notin ShapeNames \cup {"none"}
    \/ d.rigid_body \notin BodyNames \cup {"none"}

\* the first entity object of the text that fails, 0 when none does
FirstBad(defs) ==
    IF \E k \in 1..Len(defs) : Unknown(defs[k])
    THEN Lowest({k \in 1..Len(defs) : Unknown(defs[k])})
    ELSE 0

\* scenes that make no more than n entities: up to n entity objects, or
\* one more when the last but one fails
ScenesOver(D, n) ==
    LET upto == SeqsUpTo(D, n)
    IN  upto \cup {Append(es, d) :
                      es \in {q \in upto : n > 0 /\ Len(q) = n /\ FirstBad(q) = n},
                      d \in D}

\* the texts handed to load_from_string: malformed ("{bad json"), a JSON
\* object without "entities", and scenes of the entity objects D
TextsOver(D, n) ==
    {[json |-> FALSE, has_entities |-> FALSE, entities |-> <<>>],
     [json |-> TRUE, has_entities |-> FALSE, entities |-> <<>>]}
    \cup {[json |-> TRUE, has_entities |-> TRUE, entities |-> es] :
             es \in ScenesOver(D, n)}

\* the texts over every entity object
Texts(n) == TextsOver(EntityDefs, n)

Add(c) == [add |-> c, type |-> "None"]

\* a parser threw std::runtime_error
Throw == [add |-> "throw", type |-> "None"]

\* faulty variant: the Player tag attaches PlayerTag alone
TagAdds_TagOnly(tags) ==
    [i \in 1..Len(tags) |-> Add(IF tags[i] = "World" THEN "WorldTag"
                                ELSE "PlayerTag")]

RECURSIVE TagAdds(_)
\* for (const auto& tag : e["tags"]): World adds WorldTag; Player adds
\* PlayerTag, PlayerInput, PlayerState
TagAdds(tags) ==
    IF tags = <<>> THEN <<>>
    ELSE (IF Head(tags) = "World" THEN <<Add("WorldTag")>>
          ELSE IF Head(tags) = "Player"
          THEN <<Add("PlayerTag"), Add("PlayerInput"), Add("PlayerState")>>
          ELSE <<>>)
         \o TagAdds(Tail(tags))

\* faulty variant: the tags are attached before the physics components
SpawnAdds_TagsFirst(d) ==
    (IF d.transform THEN <<Add("LocalTransform"), Add("WorldTransform")>>
     ELSE <<>>)
    \o TagAdds(d.tags)
    \o (IF d.box_collider THEN <<Add("BoxCollider")>> ELSE <<>>)
    \o (IF d.mesh = "none" THEN <<>>
        ELSE IF d.mesh \in ShapeNames THEN <<Add("MeshRenderer")>>
        ELSE <<Throw>>)
    \o (IF d.rigid_body = "none" THEN <<>>
        ELSE IF d.rigid_body \in BodyNames
        THEN <<[add |-> "RigidBodyConfig", type |-> d.rigid_body]>>
        ELSE <<Throw>>)
    \o (IF d.character THEN <<Add("CharacterControllerConfig")>> ELSE <<>>)

\* the world.add calls of spawn_entity for one entity object, in order, a
\* throwing parser in the place of the add it precedes
SpawnAdds(d) ==
    (IF d.transform THEN <<Add("LocalTransform"), Add("WorldTransform")>>
     ELSE <<>>)
    \o (IF d.box_collider THEN <<Add("BoxCollider")>> ELSE <<>>)
    \o (IF d.mesh = "none" THEN <<>>
        ELSE IF d.mesh \in ShapeNames THEN <<Add("MeshRenderer")>>
        ELSE <<Throw>>)
    \o (IF d.rigid_body = "none" THEN <<>>
        ELSE IF d.rigid_body \in BodyNames
        THEN <<[add |-> "RigidBodyConfig", type |-> d.rigid_body]>>
        ELSE <<Throw>>)
    \o (IF d.character THEN <<Add("CharacterControllerConfig")>> ELSE <<>>)
    \o TagAdds(d.tags)

\* world.add(e, c) on the world w with the hooks of PhysicsSystem::Register
\* and CharacterMotorSystem::Register: a hook that fires is logged with the
\* components it finds on the entity; with a context the first attaches a
\* body and RigidBodyHandle, the second CharacterHandle
WorldAdd(w, e, step) ==
    LET c     == step.add
        found == w.comps[e] \cup {c}
        fired == [e |-> e, hook |-> c, found |-> found]
    IN  IF c = "RigidBodyConfig"
        THEN IF "RigidBodyHandle" \notin w.comps[e] /\ ctx
             THEN LET id == Lowest({b \in BodyIds : w.bodies[b] = "free"})
                  IN  [w EXCEPT
                         !.comps[e] = found \cup {"RigidBodyHandle"},
                         !.rb_type[e] = step.type,
                         !.handle[e] = id,
                         !.bodies = JoltCalls(@, OnAddConfigCalls(id)),
                         !.hooks = Append(@, fired)]
             ELSE [w EXCEPT !.comps[e] = found,
                            !.rb_type[e] = step.type,
                            !.hooks = Append(@, fired)]
        ELSE IF c = "CharacterControllerConfig"
        THEN [w EXCEPT
                !.comps[e] = IF ctx THEN found \cup {"CharacterHandle"}
                             ELSE found,
                !.hooks = Append(@, fired)]
        ELSE [w EXCEPT !.comps[e] = found]

RECURSIVE AddAll(_, _, _)
\* the adds of one spawn_entity call, up to the first throw
AddAll(w, e, adds) ==
    IF adds = <<>> THEN w
    ELSE IF Head(adds) = Throw THEN [w EXCEPT !.ok = FALSE]
    ELSE AddAll(WorldAdd(w, e, Head(adds)), e, Tail(adds))

\* spawn_entity: auto ent = world.create(); then the adds
SpawnEntity(w, d) ==
    LET ent == Lowest(Entities \ w.alive)
    IN  AddAll([w EXCEPT !.alive = @ \cup {ent}, !.made = Append(@, ent)],
               ent, SpawnAdds(d))

RECURSIVE SpawnEntities_KeepGoing(_, _)
\* faulty variant: the loop goes on after an entity failed
SpawnEntities_KeepGoing(w, defs) ==
    IF defs = <<>> THEN w
    ELSE SpawnEntities_KeepGoing(SpawnEntity(w, Head(defs)), Tail(defs))

RECURSIVE SpawnEntities(_, _)
\* for (const auto& entity_json : scene.at("entities")) spawn_entity(...),
\* left at the first exception
SpawnEntities(w, defs) ==
    IF defs = <<>> \/ ~w.ok THEN w
    ELSE SpawnEntities(SpawnEntity(w, Head(defs)), Tail(defs))

\* faulty variant: the exception of json::parse is not caught as a failure
ParseOk_Lenient(text) == TRUE

\* json::parse(json_str) returns a value; scene.at("entities") finds the key
ParseOk(text) == text.json /\ text.has_entities

\* the world as load_from_string finds it
WorldNow ==
    [alive |-> alive, comps |-> comps, rb_type |-> rb_type, handle |-> handle,
     bodies |-> bodies, hooks |-> <<>>, made |-> <<>>, ok |-> TRUE]

\* the world load_from_string(text) leaves; its ok is the value returned
Loaded(text) ==
    IF ParseOk(text) THEN SpawnEntities(WorldNow, text.entities)
    ELSE [WorldNow EXCEPT !.ok = FALSE]

\* the entities, components and bodies are those of the world w
Becomes(w) ==
    /\ alive' = w.alive
    /\ comps' = w.comps
    /\ rb_type' = w.rb_type
    /\ handle' = w.handle
    /\ bodies' = w.bodies

\* SceneLoader::load_from_string(world, text): one scene is loaded at a
\* time, into a new world or after unload, and the world has room for its
\* entities
LoadText(text) ==
    /\ ~load.made
    /\ LET w == Loaded(text)
       IN  /\ Becomes(w)
           /\ load' = [made |-> TRUE, text |-> text, result |-> w.ok,
                       hooks |-> w.hooks, spawned |-> w.made,
                       before |-> [alive |-> alive, comps |-> comps,
                                   handle |-> handle, bodies |-> bodies]]
    /\ UNCHANGED <<ctx, last, twin, velocity, built, poses, query, panel, charVars,
                   tickVars, evVars, frameVars>>

\* load_from_string on any of the texts
LoadFromString ==
    \E text \in Texts(MaxEntities - Cardinality(alive)) : LoadText(text)

RECURSIVE DestroyAll(_, _)
\* for (auto e : to_destroy) world.destroy(e): the body table once the
\* on_remove<RigidBodyHandle> hook ran for each of them
DestroyAll(bs, S) ==
    IF S = {} THEN bs
    ELSE LET e == Lowest(S)
         IN  DestroyAll(JoltCalls(bs, OnRemoveHandleCalls(e)), S \ {e})

\* SceneLoader::unload: every entity with WorldTag is destroyed
SceneUnload ==
    LET to_destroy == {e \in alive : "WorldTag" \in comps[e]}
    IN  /\ to_destroy # {}
        /\ alive' = alive \ to_destroy
        /\ comps' = [e \in Entities |-> IF e \in to_destroy THEN {} ELSE comps[e]]
        /\ rb_type' = [e \in Entities |->
                          IF e \in to_destroy THEN "None" ELSE rb_type[e]]
        /\ handle' = [e \in Entities |->
                         IF e \in to_destroy THEN NoBody ELSE handle[e]]
        /\ bodies' = DestroyAll(bodies, to_destroy)
        /\ load' = [made |-> FALSE]
        /\ UNCHANGED <<ctx, last, twin, velocity, built, poses, query, panel, charVars,
                       tickVars, evVars, frameVars>>

\* an empty world (the unit tests'), with the hooks registered and the
\* PhysicsContext resource set or not
InitScene ==
    /\ state = DefaultState
    /\ intent = DefaultIntent
    /\ prev = DefaultState
    /\ call = NoCall
    /\ run_sum = 0
    /\ run_len = 0
    /\ pc = "idle"
    /\ jump_events = <<>>
    /\ land_events = <<>>
    /\ alive = {}
    /\ comps = [e \in Entities |-> {}]
    /\ rb_type = [e \in Entities |-> "None"]
    /\ handle = [e \in Entities |-> NoBody]
    /\ bodies = [b \in BodyIds |-> "free"]
    /\ ctx \in BOOLEAN
    /\ last = NoOp
    /\ queue = <<>>
    /\ qlog = NoQueueCall
    /\ NoRest
    /\ NoFrame

NextScene ==
    \/ LoadFromString
    \/ SceneUnload

SpecScene == InitScene /\ [][NextScene]_vars

-----------------------------------------------------------------------------
(* PlatformBuilderSystem over the frames of one player, keyboard or gamepad *)

\* calls followed
MaxBuilds == 5

\* one frame of the builder: the input systems wrote plant_platform and
\* trigger_val, the deferred queue was flushed at the end of the frame
\* before, and PlatformBuilderSystem::Update runs with this frame's time.
\* The history follows the trigger itself: a hold is a run of calls with the
\* trigger down, it begins with an edge, the edge is missed when it comes
\* while the cooldown runs, and the cooldown of a missed edge expires when it
\* is <= 0 at a later call of the same hold
BuilderUpdate ==
    /\ built.calls < MaxBuilds
    /\ {"PlayerTag", "WorldTransform", "PlayerInput", "PlayerState"}
           \subseteq comps[Player]
    /\ \E dt \in DtSet, key \in BOOLEAN, trigger_val \in TriggerVals :
          LET down     == TriggerIsDown(key, trigger_val)
              queued   == IF Plants(pstate, down, dt) THEN DeferCreate(<<>>)
                          ELSE <<>>
              edge     == down /\ ~built.down
              cooldown == CooledDown(pstate, dt)
          IN  /\ frame_dt' = dt
              /\ input' = [input EXCEPT !.plant_platform = key]
              /\ pstate' = Built(pstate, down, dt)
              /\ deferred' = queued
              /\ built' =
                    [calls |-> built.calls + 1,
                     down |-> down,
                     edge |-> edge,
                     cooldown |-> cooldown,
                     hold_plants |->
                         IF ~down THEN 0
                         ELSE IF edge THEN Len(queued)
                         ELSE built.hold_plants + Len(queued),
                     missed |->
                         down /\ (IF edge THEN cooldown > 0 ELSE built.missed),
                     expired |->
                         down /\ ~edge /\ built.missed
                         /\ (built.expired \/ cooldown <= 0)]
    /\ UNCHANGED <<pipeline, phase, idx, frame, trace, accumulator, time_sum,
                   steps, record, begin, sent, heard, charVars, tickVars,
                   ecsVars, evVars, load, twin, velocity, poses, query, panel>>

\* the KEY_R reset between two frames: SpawnScene gives the player a new
\* PlayerState, whose history begins here
BuilderReset ==
    /\ built.calls > 0
    /\ ResetWorld
    /\ deferred' = <<>>
    /\ built' = [NoBuilt EXCEPT !.calls = built.calls]
    /\ UNCHANGED <<pipeline, phase, idx, frame, frame_dt, trace, accumulator,
                   time_sum, steps, record, begin, sent, heard, tickVars,
                   evVars, load, twin, poses, query, panel>>

NextBuilder ==
    \/ BuilderUpdate
    \/ BuilderReset

SpecBuilder == InitFrame /\ [][NextBuilder]_vars

-----------------------------------------------------------------------------
(* The life of the physics bodies: scenes loaded and unloaded, platforms    *)
(* spawned, entities destroyed and the world reset, in any order            *)

\* the entity objects of the scenes loaded here: the box and the player of
\* MINIMAL_SCENE, a box without tags (unload and the reset leave it) and a
\* box whose body type the parser does not know
LifeDefs ==
    {BoxDef, PlayerDef, [BoxDef EXCEPT !.tags = <<>>],
     [BoxDef EXCEPT !.rigid_body = "Liquid"]}

\* malformed text and the scenes over LifeDefs that make no more than n
\* entities
LifeTexts(n) == TextsOver(LifeDefs, n)

\* the history record of an operation on the whole world
WorldOp(name) ==
    [NoOp EXCEPT !.op = name, !.bodies_before = bodies,
                 !.world_before = [alive |-> alive, comps |-> comps,
                                   handle |-> handle]]

\* SceneLoader::load_from_string on one of these texts, on a world that has
\* room for its entities, loaded into before or not
LoadScene ==
    /\ \E text \in LifeTexts(MaxEntities - Cardinality(alive)) :
          Becomes(Loaded(text))
    /\ last' = WorldOp("load")
    /\ UNCHANGED <<ctx, charVars, tickVars, evVars, frameVars, restVars,
                   velocity>>

\* the platforms SpawnScene lists after the ground and the player
ScenePlatforms == 11

\* SpawnScene: the world.add calls for the ground and for each platform
GroundAdds ==
    <<Add("LocalTransform"), Add("WorldTransform"), Add("MeshRenderer"),
      Add("BoxCollider"), [add |-> "RigidBodyConfig", type |-> "Static"],
      Add("WorldTag")>>

\* SpawnScene: the world.add calls for the player; the on_add hooks of
\* CharacterInputSystem and CharacterStateSystem attach CharacterIntent and
\* CharacterState next to the motor's CharacterHandle
PlayerAdds ==
    <<Add("LocalTransform"), Add("WorldTransform"), Add("MeshRenderer"),
      Add("PlayerTag"), Add("PlayerInput"), Add("PlayerState"),
      Add("CharacterControllerConfig"), Add("CharacterIntent"),
      Add("CharacterState"), Add("WorldTag")>>

\* auto ent = world.create(); world.add(ent, ...); ...
Make(w, adds) ==
    LET ent == Lowest(Entities \ w.alive)
    IN  AddAll([w EXCEPT !.alive = @ \cup {ent}, !.made = Append(@, ent)],
               ent, adds)

RECURSIVE MakePlatforms(_, _)
\* for (const auto& p : platforms) {...}: as many of them as Entities has
\* room for
MakePlatforms(w, n) ==
    IF n = 0 \/ w.alive = Entities THEN w
    ELSE MakePlatforms(Make(w, GroundAdds), n - 1)

\* SpawnScene(world): the ground, the player, the platforms
SpawnScene(w) ==
    MakePlatforms(Make(Make(w, GroundAdds), PlayerAdds), ScenePlatforms)

\* faulty variant: the reset forgets the entities without running the
\* on_remove hooks
Destroyed_HooksSkipped(S) == bodies

\* the body table once world.destroy(e) ran for each entity of S
Destroyed(S) == DestroyAll(bodies, S)

\* the world once every entity with WorldTag is destroyed
Cleared ==
    LET to_destroy == {e \in alive : "WorldTag" \in comps[e]}
    IN  [WorldNow EXCEPT
           !.alive = alive \ to_destroy,
           !.comps = [e \in Entities |->
                         IF e \in to_destroy THEN {} ELSE comps[e]],
           !.rb_type = [e \in Entities |->
                           IF e \in to_destroy THEN "None" ELSE rb_type[e]],
           !.handle = [e \in Entities |->
                          IF e \in to_destroy THEN NoBody ELSE handle[e]],
           !.bodies = Destroyed(to_destroy)]

\* if (IsKeyPressed(KEY_R)) {...} on a world that may hold loaded entities:
\* every entity with WorldTag is destroyed, the deferred queue (empty between
\* frames) is flushed and SpawnScene builds the scene again; the world has
\* room for the ground and the player
KeyReset ==
    /\ Cardinality(Cleared.alive) + 2 <= MaxEntities
    /\ Becomes(SpawnScene(Cleared))
    /\ last' = WorldOp("reset")
    /\ UNCHANGED <<ctx, charVars, tickVars, evVars, frameVars, restVars,
                   velocity>>

\* PlatformBuilderSystem's create_with command, applied by the deferred
\* flush at the end of the frame that queued it
PlatformSpawn ==
    /\ \E e \in Entities \ alive : CreateWith(e)
    /\ UNCHANGED <<ctx, charVars, tickVars, evVars, frameVars, restVars,
                   velocity>>

NextLife ==
    \/ LoadScene
    \/ SceneUnload
    \/ PlatformSpawn
    \/ \E e \in Entities : DestroyEntity(e)
    \/ KeyReset

SpecLife == InitScene /\ [][NextLife]_vars

-----------------------------------------------------------------------------
(* Two characters given the same apply_state calls, a third given others    *)

\* faulty variant: the jump counter is a function-local static, shared by
\* every character and last written for the third one
TwinApply_SharedCount(on_ground, dt, it, s) ==
    apply_state(on_ground, dt, it,
                [s EXCEPT !.jump_count = twin.other.jump_count])

\* apply_state(on_ground, dt, intent, state): it reads and writes its
\* arguments only
TwinApply(on_ground, dt, it, s) == apply_state(on_ground, dt, it, s)

\* the first character is called, with any input
TwinCallA ==
    /\ twin.turn = "a"
    /\ \E on_ground \in BOOLEAN, dt \in DtSet, jr \in BOOLEAN :
          /\ on_ground \/ state.air_time < MaxAirTime
          /\ state' = TwinApply(on_ground, dt, [jump_requested |-> jr], state)
          /\ twin' = [twin EXCEPT !.turn = "b", !.on_ground = on_ground,
                                  !.dt = dt,
                                  !.intent = [jump_requested |-> jr]]
    /\ UNCHANGED <<intent, prev, call, run_sum, run_len, load, velocity, built, poses, query,
                   panel, tickVars, ecsVars, evVars, frameVars>>

\* the second character is called with the input the first was given
TwinCallB ==
    /\ twin.turn = "b"
    /\ twin' = [twin EXCEPT
                  !.turn = "a",
                  !.b = TwinApply(twin.on_ground, twin.dt, twin.intent, @)]
    /\ UNCHANGED <<charVars, load, velocity, built, poses, query, panel, tickVars, ecsVars,
                   evVars, frameVars>>

\* a third character is called at any time, with inputs of its own (its
\* frames are of 0.1f)
TwinCallOther ==
    /\ \E on_ground \in BOOLEAN, jr \in BOOLEAN :
          /\ on_ground \/ twin.other.air_time < MaxAirTime
          /\ twin' = [twin EXCEPT
                        !.other = TwinApply(on_ground, F32(13421773, 2),
                                            [jump_requested |-> jr], @)]
    /\ UNCHANGED <<charVars, load, velocity, built, poses, query, panel, tickVars, ecsVars,
                   evVars, frameVars>>

NextTwin ==
    \/ TwinCallA
    \/ TwinCallB
    \/ TwinCallOther

\* three characters constructed alike
SpecTwin == Init /\ [][NextTwin]_vars

-----------------------------------------------------------------------------
(* DebugPanel *)

\* how many watch calls are made on one panel
MaxWatches == 4

\* section headings and row labels handed to watch
Titles == {"Engine", "Character", "Physics"}
Labels == {"FPS", "Mode"}

\* faulty variant: only the newest section is compared
FindSection_LastOnly(sections, section) ==
    IF Len(sections) > 0 /\ sections[Len(sections)].title = section
    THEN Len(sections) ELSE 0

\* for (auto& s : sections_) if (s.title == section): the first section with
\* the title, 0 when the loop ends without one
FindSection(sections, section) ==
    IF \E i \in 1..Len(sections) : sections[i].title = section
    THEN Lowest({i \in 1..Len(sections) : sections[i].title = section})
    ELSE 0

\* DebugPanel::watch(section, label, fn); a row is kept by its label
Watch ==
    /\ Len(panel.calls) < MaxWatches
    /\ \E section \in Titles, label \in Labels :
          LET i == FindSection(panel.sections, section)
          IN  panel' =
                [sections |->
                    IF i > 0
                    THEN [panel.sections EXCEPT
                            ![i].rows = Append(@, [label |-> label])]
                    ELSE Append(panel.sections,
                                [title |-> section,
                                 rows |-> <<[label |-> label]>>]),
                 calls |-> Append(panel.calls,
                                  [section |-> section, label |-> label])]
    /\ UNCHANGED <<alive, comps, rb_type, handle, bodies, ctx, last, load,
                   twin, velocity, built, poses, query, charVars, tickVars, evVars,
                   frameVars>>

NextPanel == Watch

SpecPanel == Init /\ [][NextPanel]_vars

-----------------------------------------------------------------------------
(* The event bus and AudioSystem alone: the flush, the events of the state  *)
(* machines of a frame, AudioSystem::Update                                 *)

\* EventBusModule's pre-update step at the head of a frame
AudioFlush ==
    /\ pc = "flush_all"
    /\ frame < MaxFrames
    /\ frame' = frame + 1
    /\ jump_events' = RegistryFlushAll(jump_events, land_events).jump
    /\ land_events' = RegistryFlushAll(jump_events, land_events).land
    /\ sent' = [jump |-> <<>>, land |-> <<>>,
                flushed |-> Len(jump_events) + Len(land_events)]
    /\ heard' = NoneHeard
    /\ pc' = "character_state"
    /\ UNCHANGED <<pipeline, phase, idx, frame_dt, trace, accumulator,
                   time_sum, steps, record, input, pstate, deferred, begin,
                   charVars, ecsVars, evVars, restVars, velocity>>

\* the Events<T>::send calls of the state machines of a frame: a JumpEvent
\* for each jump fired, a LandEvent for each landing
StateMachinesSend ==
    /\ pc = "character_state"
    /\ \E numbers \in SeqsUpTo({1, MaxJumps}, MaxQueueLen), lands \in 0..MaxQueueLen :
          LET jumps == [i \in 1..Len(numbers) |->
                          [entity |-> Player, frame |-> frame,
                           jump_number |-> numbers[i]]]
              landed == [i \in 1..lands |-> [entity |-> Player, frame |-> frame]]
          IN  /\ jump_events' = jump_events \o jumps
              /\ land_events' = land_events \o landed
              /\ sent' = [sent EXCEPT !.jump = jumps, !.land = landed]
    /\ pc' = "audio"
    /\ UNCHANGED <<pipeline, phase, idx, frame, frame_dt, trace, accumulator,
                   time_sum, steps, record, input, pstate, deferred, begin,
                   heard, charVars, ecsVars, evVars, restVars, velocity>>

\* AudioSystem::Update, installed after the state machine
AudioSystemUpdate ==
    /\ pc = "audio"
    /\ heard' = Heard(jump_events, land_events)
    /\ pc' = "flush_all"
    /\ UNCHANGED <<pipeline, phase, idx, frame, frame_dt, trace, accumulator,
                   time_sum, steps, record, input, pstate, deferred, begin,
                   sent, jump_events, land_events, charVars, ecsVars, evVars,
                   restVars, velocity>>

NextAudio ==
    \/ AudioFlush
    \/ StateMachinesSend
    \/ AudioSystemUpdate

SpecAudio == InitTick /\ [][NextAudio]_vars

-----------------------------------------------------------------------------
(* The character hooks: CharacterInputSystem::Register,                     *)
(* CharacterStateSystem::Register and CharacterMotorSystem::Register each   *)
(* install one on_add<CharacterControllerConfig> hook                       *)

\* what the three hooks attach: CharacterIntent{}, CharacterState{} and,
\* with a PhysicsContext, CharacterHandle{character}
CharacterRuntime ==
    IF ctx THEN {"CharacterIntent", "CharacterState", "CharacterHandle"}
    ELSE {"CharacterIntent", "CharacterState"}

\* world.add(e, LocalTransform{...}); world.add(e, WorldTransform{})
AddTransform(e) ==
    /\ e \in alive
    /\ "LocalTransform" \notin comps[e]
    /\ comps' = [comps EXCEPT ![e] = @ \cup {"LocalTransform", "WorldTransform"}]
    /\ last' = Op("add_transform", e, <<>>)
    /\ UNCHANGED <<alive, rb_type, handle, bodies, ctx, charVars, tickVars,
                   evVars, frameVars, restVars, velocity>>

\* world.add(e, CharacterControllerConfig{}) and the three hooks; the
\* player's CharacterState and CharacterIntent are the ones the model keeps
AddCharacterControllerConfig(e) ==
    /\ e \in alive
    /\ "CharacterControllerConfig" \notin comps[e]
    /\ comps' = [comps EXCEPT
                   ![e] = @ \cup {"CharacterControllerConfig"}
                            \cup CharacterRuntime]
    /\ state' = IF e = Player THEN DefaultState ELSE state
    /\ intent' = IF e = Player THEN DefaultIntent ELSE intent
    /\ last' = Op("add_character", e, <<>>)
    /\ UNCHANGED <<alive, rb_type, handle, bodies, ctx, prev, call, run_sum,
                   run_len, tickVars, evVars, frameVars, restVars, velocity>>

\* world.remove<CharacterControllerConfig>(e): no hook is registered for it
RemoveCharacterControllerConfig(e) ==
    /\ e \in alive
    /\ "CharacterControllerConfig" \in comps[e]
    /\ comps' = [comps EXCEPT ![e] = @ \ {"CharacterControllerConfig"}]
    /\ last' = Op("remove_character", e, <<>>)
    /\ UNCHANGED <<alive, rb_type, handle, bodies, ctx, charVars, tickVars,
                   evVars, frameVars, restVars, velocity>>

NextChar ==
    \/ \E e \in Entities : CreateEntity(e)
    \/ \E e \in Entities : AddTransform(e)
    \/ \E e \in Entities : AddCharacterControllerConfig(e)
    \/ \E e \in Entities : RemoveCharacterControllerConfig(e)
    \/ \E e \in Entities : DestroyEntity(e)

\* the world of main(): PhysicsContext set, hooks registered, no entity yet
SpecChar == Init /\ [][NextChar]_vars

-----------------------------------------------------------------------------
(* PhysicsSystem::Update with the poses kept: a pose is a position along    *)
(* one axis, in whole units                                                 *)

\* the engine is stepped while every body is below this position
MaxPose == 2

\* faulty variant: every entity with a body is read back
PoseReadBack_AllBodies ==
    {e \in alive :
        {"RigidBodyHandle", "WorldTransform", "RigidBodyConfig"}
            \subseteq comps[e]}

\* the entities whose pose is read back: if (cfg.type == BodyType::Dynamic)
PoseReadBack == PoseReaders

\* entities spawned as SpawnScene and spawn_entity do, of every body type,
\* with or without a LocalTransform: the body is made at the local position,
\* WorldTransform{} is the identity
InitPose ==
    /\ state = DefaultState
    /\ intent = DefaultIntent
    /\ prev = DefaultState
    /\ call = NoCall
    /\ run_sum = 0
    /\ run_len = 0
    /\ pc = "idle"
    /\ jump_events = <<>>
    /\ land_events = <<>>
    /\ queue = <<>>
    /\ qlog = NoQueueCall
    /\ NoFrame
    /\ last = NoOp
    /\ load = [made |-> FALSE]
    /\ twin = [b |-> DefaultState, other |-> DefaultState, turn |-> "a",
               on_ground |-> TRUE, dt |-> 0, intent |-> DefaultIntent]
    /\ query = [made |-> FALSE]
    /\ panel = NoPanel
    /\ velocity = NoVelocity
    /\ built = NoBuilt
    /\ ctx \in BOOLEAN
    /\ alive = Entities
    /\ rb_type \in [Entities -> BodyTypes]
    /\ comps \in [Entities -> {PlatformComps \cup {"RigidBodyHandle"},
                               (PlatformComps \ {"LocalTransform"})
                                   \cup {"RigidBodyHandle"}}]
    /\ handle = [e \in Entities |-> e]
    /\ bodies = [b \in BodyIds |-> "added"]
    /\ \E at \in [Entities -> {0, 1}] :
          poses = [e \in Entities |->
                      IF "LocalTransform" \in comps[e]
                      THEN [body |-> at[e], world |-> 0, local |-> at[e]]
                      ELSE [body |-> 0, world |-> 0, local |-> 0]]

\* ctx.physics_system->Update(dt, 1, ...): one step of the engine, in which
\* a dynamic or kinematic body moves on by move[e] and a static body stays
Stepped(move) ==
    [e \in Entities |->
        IF rb_type[e] \in {"Dynamic", "Kinematic"}
        THEN [poses[e] EXCEPT !.body = @ + move[e]]
        ELSE poses[e]]

\* bi.GetPositionAndRotation(h.id, pos, rot); wt.matrix = mat4_compose(...);
\* if (auto* lt = world.try_get<LocalTransform>(e)) lt->position = ...
ReadBack(ps) ==
    [e \in Entities |->
        IF e \in PoseReadBack
        THEN [body |-> ps[e].body, world |-> ps[e].body,
              local |-> IF "LocalTransform" \in comps[e] THEN ps[e].body
                        ELSE ps[e].local]
        ELSE ps[e]]

\* PhysicsSystem::Update(world, dt) as the fixed tick calls it: without a
\* context it returns; with one the engine makes one step and the poses
\* are read back
PhysicsUpdatePoses ==
    /\ \A e \in Entities : poses[e].body < MaxPose
    /\ \E move \in [Entities -> {0, 1}] :
          /\ poses' = IF PhysicsUpdateSteps THEN ReadBack(Stepped(move))
                      ELSE poses
          /\ last' = [Op("physics_update", Player, <<>>) EXCEPT
                        !.calls = IF PhysicsUpdateSteps
                                  THEN <<[fn |-> "Update", id |-> NoBody]>>
                                  ELSE <<>>,
                        !.wrote = IF PhysicsUpdateSteps THEN PoseReadBack
                                  ELSE {}]
    /\ UNCHANGED <<alive, comps, rb_type, handle, bodies, ctx, load, twin, velocity, built,
                   query, panel, charVars, tickVars, evVars, frameVars>>

\* namespace Layers and namespace BroadPhaseLayers
NON_MOVING == 0
MOVING == 1
BP_NON_MOVING == 0
BP_MOVING == 1

\* faulty variant: only dynamic bodies are put on the moving layer
LayerOf_DynamicOnly(type) ==
    IF type = "Dynamic" THEN MOVING ELSE NON_MOVING

\* on_add<RigidBodyConfig>: layer = (cfg.type == BodyType::Static)
\*                                      ? Layers::NON_MOVING : Layers::MOVING
LayerOf(type) ==
    IF type = "Static" THEN NON_MOVING ELSE MOVING

\* BPLayerInterfaceImpl::GetBroadPhaseLayer: the table filled in by the
\* constructor
GetBroadPhaseLayer(inLayer) ==
    IF inLayer = NON_MOVING THEN BP_NON_MOVING ELSE BP_MOVING

\* ObjectVsBroadPhaseLayerFilterImpl::ShouldCollide
ObjectVsBroadPhaseShouldCollide(inLayer1, inLayer2) ==
    CASE inLayer1 = NON_MOVING -> inLayer2 = BP_MOVING
      [] inLayer1 = MOVING -> TRUE
      [] OTHER -> FALSE

\* ObjectLayerPairFilterImpl::ShouldCollide
ObjectLayerPairShouldCollide(inObject1, inObject2) ==
    CASE inObject1 = NON_MOVING -> inObject2 = MOVING
      [] inObject1 = MOVING -> TRUE
      [] OTHER -> FALSE

\* the engine asks both filters about the bodies of two entities, in the
\* layers their bodies were created in
FilterQuery ==
    /\ \E e1 \in alive, e2 \in alive :
          LET l1 == LayerOf(rb_type[e1])
              l2 == LayerOf(rb_type[e2])
          IN  query' = [made |-> TRUE,
                        type1 |-> rb_type[e1], type2 |-> rb_type[e2],
                        layer1 |-> l1, layer2 |-> l2,
                        pair |-> ObjectLayerPairShouldCollide(l1, l2),
                        pair_swapped |-> ObjectLayerPairShouldCollide(l2, l1),
                        broad |-> ObjectVsBroadPhaseShouldCollide(
                                      l1, GetBroadPhaseLayer(l2)),
                        broad_swapped |-> ObjectVsBroadPhaseShouldCollide(
                                      l2, GetBroadPhaseLayer(l1))]
    /\ UNCHANGED <<alive, comps, rb_type, handle, bodies, ctx, last, load,
                   twin, velocity, built, poses, panel, charVars, tickVars, evVars, frameVars>>

NextPose ==
    \/ PhysicsUpdatePoses
    \/ FilterQuery

SpecPose == InitPose /\ [][NextPose]_vars

-----------------------------------------------------------------------------
(* Claims about apply_state *)

Abs(x) == IF x < 0 THEN -x ELSE x

\* the last call was eligible to jump: grounded, or a jump charge was left
Eligible == call.on_ground \/ prev.jump_count < MaxJumps

\* C1: after any sequence of apply_state calls from the default state,
\* jump_count is in 0..2 and air_time is never negative.
C1_CountAndAirTimeInRange ==
    /\ state.jump_count \in 0..2
    /\ state.air_time >= 0

\* an airborne double jump has been made, with both jump charges spent
C1_Witness ==
    /\ call.made
    /\ state.jump_count = 2
    /\ state.air_time > CoyoteWindow

\* C2: jump budget.  From grounded with jump_count 0, a grounded call with a
\* jump request gives impulse 12 and jump_count 1; the following airborne
\* call with a request gives impulse 10 and jump_count 2; every further
\* airborne call with a request at jump_count 2 gives impulse 0 and leaves
\* jump_count at 2.
C2_JumpBudget ==
    call.made /\ call.jump_requested =>
        /\ prev.mode = Grounded /\ prev.jump_count = 0 /\ call.on_ground
              => state.jump_impulse = 12 /\ state.jump_count = 1
        /\ prev.mode = Grounded /\ prev.jump_count = 1 /\ ~call.on_ground
              => state.jump_impulse = 10 /\ state.jump_count = 2
        /\ prev.jump_count = 2 /\ ~call.on_ground
              => state.jump_impulse = 0 /\ state.jump_count = 2

\* a third request arrives right after the double jump, and is refused
C2_Witness ==
    /\ call.made /\ call.jump_requested /\ ~call.on_ground
    /\ prev.jump_count = 2 /\ prev.jump_impulse = 10
    /\ state.jump_impulse = 0 /\ state.jump_count = 2

\* C3: coyote jump.  An airborne call with jump_count 0, air_time (after
\* adding dt) below 0.2 s and a jump request gives impulse 12 and
\* jump_count 2; with jump_count 2 no airborne call fires a jump.
C3_CoyoteJump ==
    call.made /\ ~call.on_ground =>
        /\ call.jump_requested /\ prev.jump_count = 0
            /\ state.air_time < CoyoteWindow
              => state.jump_impulse = 12 /\ state.jump_count = 2
        /\ prev.jump_count = 2
              => state.jump_impulse = 0 /\ state.jump_count = 2

\* a jump fired in the coyote window after walking off a ledge
C3_Witness ==
    /\ call.made /\ ~call.on_ground /\ call.jump_requested
    /\ prev.mode = Airborne /\ prev.jump_count = 0 /\ prev.air_time > 0
    /\ state.air_time < CoyoteWindow
    /\ state.jump_impulse = 12 /\ state.jump_count = 2

\* C4 as stated: for every prior state and every intent, a call with
\* on_ground = true leaves mode = Grounded, jump_count = 0, air_time = 0.
C4_Original ==
    call.made /\ call.on_ground =>
        state.mode = Grounded /\ state.jump_count = 0 /\ state.air_time = 0

\* C4 as amended: for every prior state, a call with on_ground = true leaves
\* mode = Grounded and air_time = 0, and jump_count = 0 when no jump is
\* requested, 1 when one is (the grounded jump fires in the same call).
C4_GroundedInvariant ==
    call.made /\ call.on_ground =>
        /\ state.mode = Grounded
        /\ state.air_time = 0
        /\ state.jump_count = IF call.jump_requested THEN 1 ELSE 0

\* landing without a request from an airborne state with a jump spent
C4_Witness ==
    /\ call.made /\ call.on_ground /\ ~call.jump_requested
    /\ prev.mode = Airborne /\ prev.jump_count > 0 /\ prev.air_time > 0
    /\ state = DefaultState

\* C5 as stated: jump_impulse is 0 after any apply_state call.
C5_Original == call.made => state.jump_impulse = 0

\* C5 as amended: jump_impulse is 0 after any apply_state call in which no
\* jump fires (no request, or airborne with both charges spent), whatever
\* value it held before the call.
C5_ClearedWhenNoJump ==
    call.made /\ ~(call.jump_requested /\ Eligible) => state.jump_impulse = 0

\* the unit test's stale 99.0f is gone after a call
C5_Witness ==
    /\ call.made
    /\ prev.jump_impulse = StaleImpulse
    /\ state.jump_impulse = 0

\* C6: after an apply_state call jump_impulse is non-zero iff a jump fired
\* in that call (requested and eligible); a non-zero value of an earlier
\* tick does not survive a call in which no jump fires.
C6_OneFrameSignal ==
    call.made =>
        /\ state.jump_impulse # 0 <=> (call.jump_requested /\ Eligible)
        /\ state.jump_impulse # 0 => state.jump_impulse \in {10, 12}

\* the impulse of a jump fired in the call before is cleared by a call
\* that requests a jump with no charge left
C6_Witness ==
    /\ call.made /\ call.jump_requested /\ ~call.on_ground
    /\ prev.jump_impulse \in {10, 12}
    /\ state.jump_impulse = 0

\* C7 as stated: a call with jump_requested = false never changes
\* jump_count and never produces a non-zero jump_impulse.
C7_Original ==
    call.made /\ ~call.jump_requested =>
        state.jump_count = prev.jump_count /\ state.jump_impulse = 0

\* C7 as amended: a call with jump_requested = false never raises
\* jump_count (airborne it is unchanged, ground contact resets it to 0) and
\* never produces a non-zero jump_impulse.
C7_NoRequestNoJump ==
    call.made /\ ~call.jump_requested =>
        /\ state.jump_count = IF call.on_ground THEN 0 ELSE prev.jump_count
        /\ state.jump_impulse = 0

\* an airborne call without a request keeps a spent jump spent
C7_Witness ==
    /\ call.made /\ ~call.jump_requested /\ ~call.on_ground
    /\ prev.jump_count = 1
    /\ state.jump_count = 1 /\ state.jump_impulse = 0

\* C8 as stated: an airborne call sets mode = Airborne and raises air_time
\* by exactly dt; after n airborne calls following a grounded call air_time
\* is the sum of the n dt.
C8_Original ==
    call.made /\ ~call.on_ground =>
        /\ state.mode = Airborne
        /\ state.air_time = prev.air_time + call.dt
        /\ state.air_time = run_sum

\* C8 as amended: an airborne call sets mode = Airborne and sets air_time to
\* the float32 nearest to air_time + dt (exactly air_time + dt when that sum
\* is a float32) and never lowers it; after n airborne calls following a
\* grounded call air_time is within n half-spacings of the sum of the n dt.
C8_AirTimeAdvances ==
    call.made /\ ~call.on_ground =>
        LET sum == prev.air_time + call.dt
        IN  /\ state.mode = Airborne
            /\ state.air_time % Quantum(state.air_time) = 0
            /\ 2 * Abs(state.air_time - sum) <= Quantum(sum)
            /\ sum % Quantum(sum) = 0 => state.air_time = sum
            /\ state.air_time >= prev.air_time
            /\ 2 * Abs(state.air_time - run_sum)
                   <= run_len * Quantum(state.air_time)

\* the third 0.016 s airborne call: the float sum is one unit below the
\* exact sum
C8_Witness ==
    /\ call.made /\ ~call.on_ground
    /\ run_len = 3
    /\ run_sum = 3 * F32(8589935, 0)
    /\ state.air_time = run_sum - 1

-----------------------------------------------------------------------------
(* Claims about events and the body lifecycle *)

\* C9: a tick in which a jump fires emits exactly one JumpEvent carrying the
\* entity, the resulting jump_count and the impulse; a tick in which mode
\* goes from Airborne to Grounded emits exactly one LandEvent; a tick with
\* no mode change and no jump emits neither.
C9_EventEmission ==
    pc = "flush_all" /\ call.made =>
        /\ state.jump_impulse > 0 =>
              jump_events = <<[entity |-> Player,
                               jump_number |-> state.jump_count,
                               impulse |-> state.jump_impulse]>>
        /\ prev.mode = Airborne /\ state.mode = Grounded =>
              land_events = <<[entity |-> Player]>>
        /\ prev.mode = state.mode /\ state.jump_impulse = 0 =>
              jump_events = <<>> /\ land_events = <<>>

\* C10: an entity owns a RigidBodyHandle if and only if it carries a
\* RigidBodyConfig, and never more than one handle (one body per handle,
\* no body shared by two entities).
C10_HandleIffConfig ==
    /\ \A e \in Entities :
          /\ "RigidBodyHandle" \in comps[e] <=> "RigidBodyConfig" \in comps[e]
          /\ "RigidBodyHandle" \in comps[e] <=> handle[e] # NoBody
    /\ \A e1, e2 \in Entities :
          e1 # e2 /\ handle[e1] # NoBody => handle[e1] # handle[e2]

\* bodies that exist in the Jolt body table
LiveBodies(bs) == {b \in BodyIds : bs[b] # "free"}

\* C11: attaching a RigidBodyConfig to an entity without RigidBodyHandle
\* creates exactly one body (one CreateBody, one AddBody, one more body in
\* the table) and stores one handle naming it; attaching to an entity that
\* already owns a handle makes no BodyInterface call, creates no body and
\* leaves the handle as it was.
C11_AttachOnceGuarded ==
    last.op = "add_config" =>
        IF last.handle_before = NoBody
        THEN /\ "RigidBodyHandle" \in comps[last.e]
             /\ handle[last.e] \in BodyIds
             /\ last.bodies_before[handle[last.e]] = "free"
             /\ bodies[handle[last.e]] = "added"
             /\ LiveBodies(bodies) =
                    LiveBodies(last.bodies_before) \cup {handle[last.e]}
             /\ last.calls = <<[fn |-> "CreateBody", id |-> handle[last.e]],
                               [fn |-> "AddBody", id |-> handle[last.e]]>>
             /\ \A e \in Entities \ {last.e} : handle[e] # handle[last.e]
        ELSE /\ last.calls = <<>>
             /\ bodies = last.bodies_before
             /\ handle[last.e] = last.handle_before
             /\ "RigidBodyHandle" \in comps[last.e]

\* a second RigidBodyConfig reaches an entity that kept its handle
C11_Witness ==
    /\ last.op = "add_config"
    /\ last.handle_before # NoBody
    /\ handle[last.e] = last.handle_before
    /\ Cardinality(LiveBodies(bodies)) = 2

\* C12: when a RigidBodyHandle is detached (world.remove<RigidBodyHandle> or
\* world.destroy), the body it names gets RemoveBody and then DestroyBody,
\* once each and nothing else; when the operation returns the body is gone
\* from the table with no dangling broad-phase reference and the entity
\* holds no handle, so a handle created later for the entity comes after
\* both.
C12_RemoveThenDestroy ==
    /\ last.op \in {"remove_handle", "destroy"} /\ last.handle_before # NoBody =>
          /\ last.calls = <<[fn |-> "RemoveBody", id |-> last.handle_before],
                            [fn |-> "DestroyBody", id |-> last.handle_before]>>
          /\ last.bodies_before[last.handle_before] = "added"
          /\ bodies[last.handle_before] = "free"
          /\ handle[last.e] = NoBody
          /\ "RigidBodyHandle" \notin comps[last.e]
    /\ \A b \in BodyIds : bodies[b] \in {"free", "added"}
    /\ last.op = "add_config" /\ last.calls # <<>> =>
          last.handle_before = NoBody

\* the handle of an entity is detached while another entity keeps its body
C12_Witness ==
    /\ last.op = "remove_handle"
    /\ last.handle_before # NoBody
    /\ bodies[last.handle_before] = "free"
    /\ Cardinality(LiveBodies(bodies)) = 1

\* C13: read returns exactly the events sent since the last clear, first
\* sent first; read and empty leave the buffer alone, so a read that follows
\* a read returns the same sequence; empty() holds iff that sequence is
\* empty.
C13_ReadInSendOrder ==
    /\ EventsRead(queue) = qlog.sent
    /\ qlog.op = "read" => qlog.read = qlog.sent /\ queue = qlog.before
    /\ qlog.op = "read" /\ qlog.prev_op = "read" => qlog.read = qlog.prev_read
    /\ qlog.op = "empty" =>
          /\ qlog.empty <=> qlog.sent = <<>>
          /\ queue = qlog.before

\* a second read in a row of a queue holding 42 then 7 (sent after a clear)
C13_Witness ==
    /\ qlog.op = "read" /\ qlog.prev_op = "read"
    /\ qlog.read = <<42, 7>>
    /\ qlog.prev_read = <<42, 7>>

\* C14: clear leaves the queue empty whatever it held, also when it was
\* empty already; clearing the cleared queue again changes nothing; an event
\* sent right after a clear is the one read at position 0.
C14_ClearEmpties ==
    /\ qlog.op = "clear" =>
          /\ queue = <<>>
          /\ EventsEmpty(queue)
          /\ EventsRead(queue) = <<>>
    /\ EventsClear(EventsClear(queue)) = EventsClear(queue)
    /\ qlog.op = "clear" /\ qlog.prev_op = "clear" => queue = qlog.before
    /\ qlog.op = "send" /\ qlog.prev_op = "clear" =>
          /\ Len(EventsRead(queue)) = 1
          /\ EventsRead(queue)[1] = qlog.arg

\* a full queue is cleared
C14_Witness ==
    /\ qlog.op = "clear"
    /\ Len(qlog.before) = MaxQueueLen
    /\ queue = <<>>

-----------------------------------------------------------------------------
(* Claims about the frame *)

\* C15: with the event bus installed, flush_all is the first call of every
\* frame (before input gather and every logic step) and empties every
\* registered queue; from then to the end of the frame each queue holds
\* exactly the events sent in this frame, in order, and what AudioSystem
\* reads was sent in this frame: an event of frame N is never read in
\* frame N+1.
C15_FrameScopedEvents ==
    /\ pipeline.queues /\ trace # <<>> =>
          /\ trace[1].name = "flush_all"
          /\ jump_events = sent.jump
          /\ land_events = sent.land
          /\ \A i \in 1..Len(jump_events) : jump_events[i].frame = frame
          /\ \A i \in 1..Len(land_events) : land_events[i].frame = frame
    /\ \A i \in 1..Len(heard.jump) : heard.jump[i].frame = frame
    /\ heard.land => land_events # <<>> /\ land_events[1].frame = frame
    /\ ~pipeline.queues => jump_events = <<>> /\ land_events = <<>>

\* the second frame cleared the JumpEvent of the first, and AudioSystem
\* then read the JumpEvent and found the LandEvent sent in the second
C15_Witness ==
    /\ pipeline.queues
    /\ frame = 2
    /\ sent.flushed = 1
    /\ heard.jump = <<[entity |-> Player, frame |-> 2, jump_number |-> 1]>>
    /\ heard.land

\* the indices of the physics sub-steps in the frame's trace
PhysicsCalls == {i \in 1..Len(trace) : trace[i].name = "physics"}

\* what Pipeline::update calls, in order: the pre-update steps, the logic
\* steps, and the deferred flush twice
UpdateCalls ==
    pipeline.pre_update \o pipeline.logic \o <<"deferred_flush", "deferred_flush">>

\* C16: the calls of a frame are, in this order, the pre-update steps in
\* registration order (the event flush, where registered, before input
\* gather), the logic steps in registration order, the deferred flush, then
\* only physics sub-steps (each with fixed_dt), then render as the last
\* call; so no physics sub-step lies between two logic steps and no logic
\* step between two physics sub-steps.
C16_PhasesInSequence ==
    LET calls == UpdateCalls
    IN  /\ \A i \in 1..Len(trace) :
              /\ i <= Len(calls) =>
                    trace[i].name = calls[i] /\ trace[i].dt \in {frame_dt, 0}
              /\ i > Len(calls) => trace[i].name \in {"physics", "render"}
              /\ trace[i].name = "physics" => trace[i].dt = FixedDt
              /\ trace[i].name = "render" =>
                    i = Len(trace) /\ phase = "begin" /\ trace[i].dt = 0
              /\ trace[i].name = "input_gather" /\ pipeline.queues =>
                    i > 1 /\ trace[i - 1].name = "flush_all"
        /\ phase \in {"accumulate", "drain"} => Len(trace) >= Len(calls)
        /\ phase = "begin" /\ frame > 0 =>
              Len(trace) > Len(calls) /\ trace[Len(trace)].name = "render"

\* a frame of the module pipeline ended with several physics sub-steps
C16_Witness ==
    /\ pipeline.queues
    /\ phase = "begin"
    /\ Len(trace) >= Len(UpdateCalls) + 3
    /\ trace[Len(trace) - 1].name = "physics"
    /\ trace[Len(trace)].name = "render"

\* position of a logic system in the documented order (0: not a logic system)
LogicRank(name) ==
    CASE name = "camera" -> 1
      [] name = "character_input" -> 2
      [] name = "character_state" -> 3
      [] name = "audio" -> 4
      [] name = "platform_builder" -> 5
      [] name = "character_motor" -> 6
      [] OTHER -> 0

\* C17: the logic steps of a frame run in the order camera, intent
\* translation, state machine, event consumers / world-edit, motor;
\* CharacterMotorSystem::Update is the last registered logic step, and
\* between it and any physics sub-step of the frame only deferred flushes
\* and physics sub-steps run.
C17_MotorLast ==
    LET logic == {i \in 1..Len(trace) : LogicRank(trace[i].name) > 0}
        motor == {i \in logic : trace[i].name = "character_motor"}
    IN  /\ \A i, j \in logic :
              i < j => LogicRank(trace[i].name) < LogicRank(trace[j].name)
        /\ pipeline.logic[Len(pipeline.logic)] = "character_motor"
        /\ \A i \in PhysicsCalls :
              \E j \in motor :
                  /\ j < i
                  /\ \A k \in (j + 1)..(i - 1) :
                        trace[k].name \in {"deferred_flush", "physics"}
        /\ phase \in {"flush", "accumulate", "drain"} =>
              \A n \in {"camera", "character_input", "character_state",
                        "platform_builder", "character_motor"} :
                  \E i \in logic : trace[i].name = n

\* main()'s own pipeline reached its first physics sub-step in a frame in
\* which the builder ran
C17_Witness ==
    /\ ~pipeline.queues
    /\ phase = "drain"
    /\ trace[Len(trace)].name = "physics"
    /\ trace[Len(trace) - 1].name = "deferred_flush"
    /\ \E i \in 1..Len(trace) : trace[i].name = "platform_builder"

\* half the float32 spacing of the largest value the accumulator takes: the
\* most one float addition or subtraction of the loop is off by
HalfSpacing == Quantum(FixedDt + F32(13421773, 2)) \div 2

Spawned == alive \ begin.alive

\* C19: while the pre-update and logic steps of a frame run, the entities,
\* the handles and the physics bodies are those the frame began with, and
\* every platform PlatformBuilderSystem requested is a queued command; from
\* the first deferred flush on the queue is empty and each requested
\* platform is an entity with its components, a RigidBodyHandle and a body
\* added to the simulation, so this holds at every physics sub-step of the
\* frame.
C19_SpawnDeferredToFlush ==
    /\ phase \in {"pre_update", "logic"} =>
          /\ alive = begin.alive
          /\ handle = begin.handle
          /\ bodies = begin.bodies
          /\ Len(deferred) = begin.requested
    /\ phase \in {"accumulate", "drain"} \/ (phase = "flush" /\ idx = 2)
       \/ PhysicsCalls # {} =>
          /\ deferred = <<>>
          /\ begin.alive \subseteq alive
          /\ Cardinality(Spawned) = begin.requested
          /\ \A e \in Spawned :
                /\ PlatformComps \cup {"RigidBodyHandle"} \subseteq comps[e]
                /\ handle[e] # NoBody
                /\ bodies[handle[e]] = "added"
                /\ begin.bodies[handle[e]] = "free"
    /\ \A i \in PhysicsCalls :
          \E j \in 1..(i - 1) : trace[j].name = "deferred_flush"

\* a platform requested in the logic phase has its body at the first
\* physics sub-step of the same frame
C19_Witness ==
    /\ phase = "drain"
    /\ begin.requested = 1
    /\ Cardinality(Spawned) = 1
    /\ trace[Len(trace)].name = "physics"

-----------------------------------------------------------------------------
(* Claims about the absent physics context *)

\* C20: with the PhysicsContext resource absent the last operation made no
\* Jolt call, wrote no transform and left the body table as it was;
\* attaching a RigidBodyConfig added the config alone (no handle, no
\* body), detaching a RigidBodyHandle removed the handle alone, and
\* PhysicsSystem::Update and CharacterMotorSystem::Update left entities,
\* components and handles unchanged.
C20_AbsentContextNoOps ==
    ~ctx /\ last.op # "none" =>
        /\ last.calls = <<>>
        /\ last.wrote = {}
        /\ bodies = last.bodies_before
        /\ last.op = "add_config" =>
              /\ comps[last.e] =
                     last.world_before.comps[last.e] \cup {"RigidBodyConfig"}
              /\ handle = last.world_before.handle
        /\ last.op = "remove_handle" =>
              /\ comps[last.e] =
                     last.world_before.comps[last.e] \ {"RigidBodyHandle"}
              /\ \A e \in Entities \ {last.e} :
                     handle[e] = last.world_before.handle[e]
        /\ last.op \in {"add_config", "remove_handle", "physics_update",
                        "motor_update"} =>
              /\ alive = last.world_before.alive
              /\ \A e \in Entities \ {last.e} :
                     comps[e] = last.world_before.comps[e]
        /\ last.op \in {"physics_update", "motor_update"} =>
              /\ comps = last.world_before.comps
              /\ handle = last.world_before.handle

\* without a context, PhysicsSystem::Update ran over a dynamic body that is
\* in the simulation, and a character was there for the motor
C20_Witness ==
    /\ ~ctx
    /\ last.op = "physics_update"
    /\ \E e \in PoseReaders : bodies[handle[e]] = "added"
    /\ Characters # {}

-----------------------------------------------------------------------------
(* Claims about the scene loader *)

\* the entity object the k-th entity of the last load was spawned from
DefOf(k) == load.text.entities[k]

TagComps == {"WorldTag", "PlayerTag", "PlayerInput", "PlayerState"}

C22_MalformedChangesNothing ==
    load.made /\ ~load.text.json =>
        /\ load.result = FALSE
        /\ load.spawned = <<>>
        /\ alive = load.before.alive
        /\ comps = load.before.comps
        /\ handle = load.before.handle
        /\ bodies = load.before.bodies

\* malformed text was handed to a world that held an entity
C22_Witness ==
    /\ load.made
    /\ ~load.text.json
    /\ load.result = FALSE
    /\ alive # {}

\* the components an entity object gives when all of it is spawned
DefComps(d) ==
    (IF d.transform THEN {"LocalTransform", "WorldTransform"} ELSE {})
    \cup (IF d.box_collider THEN {"BoxCollider"} ELSE {})
    \cup (IF d.mesh # "none" THEN {"MeshRenderer"} ELSE {})
    \cup (IF d.rigid_body # "none" THEN {"RigidBodyConfig"} ELSE {})
    \cup (IF d.character THEN {"CharacterControllerConfig"} ELSE {})
    \cup {c \in {"WorldTag"} : \E i \in 1..Len(d.tags) : d.tags[i] = "World"}
    \cup {c \in {"PlayerTag", "PlayerInput", "PlayerState"} :
             \E i \in 1..Len(d.tags) : d.tags[i] = "Player"}

\* C23: when an entity object holds an unknown shape or body type,
\* load_from_string returns false; the entities of the objects before it are
\* in the world with all their components, the failing object's entity was
\* created too, and no entity was made for an object after it.
C23_FailureKeepsEarlier ==
    load.made /\ ParseOk(load.text) /\ FirstBad(load.text.entities) > 0 =>
        LET bad == FirstBad(load.text.entities)
        IN  /\ load.result = FALSE
            /\ Len(load.spawned) = bad
            /\ alive = load.before.alive
                          \cup {load.spawned[k] : k \in 1..bad}
            /\ Cardinality(alive) = Cardinality(load.before.alive) + bad
            /\ \A k \in 1..(bad - 1) :
                  /\ load.spawned[k] \notin load.before.alive
                  /\ DefComps(DefOf(k)) \subseteq comps[load.spawned[k]]
                  /\ comps[load.spawned[k]] \ DefComps(DefOf(k))
                        \subseteq {"RigidBodyHandle", "CharacterHandle"}

\* the second of three entity objects failed after the first was spawned
\* whole
C23_Witness ==
    /\ load.made
    /\ ParseOk(load.text)
    /\ FirstBad(load.text.entities) = 2
    /\ Len(load.text.entities) > 2
    /\ load.result = FALSE
    /\ comps[load.spawned[1]] = DefComps(BoxDef) \cup {"RigidBodyHandle"}

\* the three components of a player
PlayerTrio == {"PlayerTag", "PlayerInput", "PlayerState"}

\* C24: a load that returns true made exactly one entity per entity object,
\* and such an entity has PlayerTag, PlayerInput and PlayerState, all
\* three, if its object carries the Player tag and none of them if not.
C24_OneEntityPerEntry ==
    load.made /\ load.result = TRUE =>
        /\ Len(load.spawned) = Len(load.text.entities)
        /\ alive = load.before.alive
                      \cup {load.spawned[k] : k \in 1..Len(load.spawned)}
        /\ Cardinality(alive) =
              Cardinality(load.before.alive) + Len(load.text.entities)
        /\ \A k \in 1..Len(load.spawned) :
              IF \E i \in 1..Len(DefOf(k).tags) : DefOf(k).tags[i] = "Player"
              THEN PlayerTrio \subseteq comps[load.spawned[k]]
              ELSE PlayerTrio \cap comps[load.spawned[k]] = {}

\* MINIMAL_SCENE was loaded into an empty world: two entities, one player
C24_Witness ==
    /\ load.made
    /\ load.result = TRUE
    /\ load.text.entities = <<BoxDef, PlayerDef>>
    /\ Cardinality(alive) = 2
    /\ Cardinality({e \in alive : PlayerTrio \subseteq comps[e]}) = 1

-----------------------------------------------------------------------------
(* Claims about determinism *)

-----------------------------------------------------------------------------
(* Claims about the pose read-back *)

\* C26: a call of PhysicsSystem::Update with a context steps the engine
\* once and then, for every dynamic entity with a body, sets the world
\* matrix (and the local pose, where there is one) to the pose the body has
\* after the step; the world matrix and local pose of every static and
\* kinematic entity are as they were before the call.
C26_DynamicOnlyReadBack ==
    last.op = "physics_update" =>
        /\ ctx => last.calls = <<[fn |-> "Update", id |-> NoBody]>>
        /\ \A e \in Entities :
              /\ rb_type[e] \in {"Static", "Kinematic"} =>
                    /\ poses[e].world = last.poses_before[e].world
                    /\ poses[e].local = last.poses_before[e].local
              /\ rb_type[e] = "Static" =>
                    poses[e].body = last.poses_before[e].body
              /\ rb_type[e] = "Dynamic" /\ ctx =>
                    /\ poses[e].world = poses[e].body
                    /\ "LocalTransform" \in comps[e] =>
                          poses[e].local = poses[e].body

\* in one step a kinematic body moved and its entity's transforms stayed,
\* while a dynamic body moved and its entity's transforms followed
C26_Witness ==
    /\ last.op = "physics_update"
    /\ ctx
    /\ \E e \in Entities :
          /\ rb_type[e] = "Kinematic"
          /\ poses[e].body > last.poses_before[e].body
          /\ poses[e].world # poses[e].body
    /\ \E e \in Entities :
          /\ rb_type[e] = "Dynamic"
          /\ poses[e].body > last.poses_before[e].body
          /\ poses[e].world > last.poses_before[e].world

\* C27: a static body is on the non-moving layer and a kinematic or dynamic
\* body on the moving layer; both filters let two layers collide exactly
\* when at least one of them is the moving layer, whichever comes first.
C27_LayersAndFilters ==
    query.made =>
        /\ query.layer1 = (IF query.type1 = "Static" THEN NON_MOVING ELSE MOVING)
        /\ query.layer2 = (IF query.type2 = "Static" THEN NON_MOVING ELSE MOVING)
        /\ query.pair = (query.layer1 = MOVING \/ query.layer2 = MOVING)
        /\ query.broad = (query.layer1 = MOVING \/ query.layer2 = MOVING)
        /\ query.pair_swapped = query.pair
        /\ query.broad_swapped = query.broad

\* a kinematic body was asked against a static one and they collide
C27_Witness ==
    /\ query.made
    /\ query.type1 = "Kinematic"
    /\ query.type2 = "Static"
    /\ query.layer1 = MOVING
    /\ query.layer2 = NON_MOVING
    /\ query.pair_swapped
    /\ query.broad_swapped

-----------------------------------------------------------------------------
(* Claims about the debug panel *)

\* the position in the call history of the first watch call for a title
FirstUse(title) ==
    Lowest({k \in 1..Len(panel.calls) : panel.calls[k].section = title})

\* the labels handed to watch for a title, in call order
LabelsFor(title) ==
    LET mine == SelectSeq(panel.calls, LAMBDA c : c.section = title)
    IN  [k \in 1..Len(mine) |-> [label |-> mine[k].label]]

\* C28: after any sequence of watch calls no two sections have the same
\* title, the sections are exactly the titles used and stand in the order
\* of their first use, and each section's rows are the labels given for its
\* title in call order.
C28_SectionsByFirstUse ==
    LET secs == panel.sections
    IN  /\ \A i, j \in 1..Len(secs) : i # j => secs[i].title # secs[j].title
        /\ {secs[i].title : i \in 1..Len(secs)}
              = {panel.calls[k].section : k \in 1..Len(panel.calls)}
        /\ \A i, j \in 1..Len(secs) :
              i < j => FirstUse(secs[i].title) < FirstUse(secs[j].title)
        /\ \A i \in 1..Len(secs) : secs[i].rows = LabelsFor(secs[i].title)

\* a title came back after another one was used: two sections, the first
\* with two rows
C28_Witness ==
    /\ Len(panel.calls) >= 3
    /\ panel.calls[1].section = panel.calls[3].section
    /\ panel.calls[1].section # panel.calls[2].section
    /\ panel.calls[1].label # panel.calls[3].label
    /\ Len(panel.sections) = 2
    /\ Len(panel.sections[1].rows) = 2

-----------------------------------------------------------------------------
(* Claims about coyote time and the intent *)

\* C29: the statement as it stands.  After an airborne call that requested
\* a jump with jump_count 0, jump_impulse is 12.0 if air_time (after the
\* call's own dt) is below 0.2 s and 10.0 if it is not.  apply_state takes
\* the impulse from jump_count alone, so the call gives 12.0 in both cases.
C29_CoyoteTime ==
    (/\ call.made
     /\ ~call.on_ground
     /\ call.jump_requested
     /\ prev.jump_count = 0) =>
        state.jump_impulse = (IF state.air_time < CoyoteWindow
                              THEN FirstJumpImpulse ELSE SecondJumpImpulse)

\* the state machine has run in the frame under way
StateMachineRan ==
    \E i \in 1..Len(trace) : trace[i].name = "character_state"

\* C30: once the state machine has run in a frame, the jump_requested it
\* was called with is the jump edge gathered in this same frame, which is
\* also what PlayerInput.jump and the intent hold; so a jump fires in a
\* frame only if the jump edge was gathered in that frame.
C30_IntentIsThisFramesEdge ==
    StateMachineRan =>
        /\ call.made
        /\ call.jump_requested = record.jump
        /\ input.jump = record.jump
        /\ intent.jump_requested = record.jump
        /\ state.jump_impulse > 0 => record.jump

\* the second frame: a jump fired in the first, no edge is gathered now and
\* the state machine sees no request
C30_Witness ==
    /\ frame = 2
    /\ StateMachineRan
    /\ ~record.jump
    /\ ~call.jump_requested
    /\ state.jump_count = 1
    /\ state.mode = Airborne
    /\ state.jump_impulse = 0

-----------------------------------------------------------------------------
(* Claims about the character runtime components *)

\* C31: the statement as it stands.  An entity carries CharacterIntent,
\* CharacterState and CharacterHandle exactly while it carries
\* CharacterControllerConfig, and the player's state is the default one
\* right after the attach.  No hook reacts to the config being detached, so
\* the three stay on the entity.
C31_RuntimeFollowsConfig ==
    /\ \A e \in Entities :
          \A c \in {"CharacterIntent", "CharacterState", "CharacterHandle"} :
              c \in comps[e] <=> "CharacterControllerConfig" \in comps[e]
    /\ last.op = "add_character" /\ last.e = Player => state = DefaultState

-----------------------------------------------------------------------------
(* Claims about the motor *)

\* the motor has run in the frame under way
MotorRan ==
    \E i \in 1..Len(trace) : trace[i].name = "character_motor"

\* C32: once the motor has run in a frame: if the state machine fired a
\* jump in this frame (the request is this frame's edge) the motor set the
\* vertical velocity to the impulse; if no jump fired in this frame it
\* did not set an impulse: airborne it lowered the velocity it read by the
\* gravity of the frame time, grounded it set 0.
C32_JumpAppliedOnce ==
    MotorRan =>
        /\ state.jump_impulse > 0 =>
              /\ velocity.set = Mps(state.jump_impulse)
              /\ call.jump_requested
              /\ record.jump
        /\ state.jump_impulse = 0 /\ state.mode = Airborne =>
              /\ velocity.set <= velocity.from
              /\ frame_dt > 0 => velocity.set < velocity.from
              /\ velocity.from - velocity.set < Mps(5)
        /\ state.jump_impulse = 0 /\ state.mode = Grounded =>
              velocity.set = 0

\* the second frame: the jump of the first frame left the character rising
\* at 12.0, no jump fires now and the motor takes gravity off
C32_Witness ==
    /\ frame = 2
    /\ MotorRan
    /\ state.mode = Airborne
    /\ state.jump_impulse = 0
    /\ velocity.from = Mps(FirstJumpImpulse)
    /\ velocity.set < velocity.from
    /\ velocity.set > 0

-----------------------------------------------------------------------------
(* Claims about AudioSystem *)

\* C33: when AudioSystem has run in a frame it has read exactly the
\* JumpEvents sent in that frame, each once and in order, and played one
\* jump sound for each; it read no event of an earlier frame; and it played
\* the land sound once if the frame's LandEvent queue held any event, however
\* many, and not at all if it held none.
C33_EventsHeardOnce ==
    /\ \A i \in 1..Len(heard.jump) : heard.jump[i].frame = frame
    /\ pc = "flush_all" /\ frame > 0 =>
          /\ heard.jump = sent.jump
          /\ Len(heard.sounds)
                = Len(sent.jump) + (IF sent.land # <<>> THEN 1 ELSE 0)
          /\ Cardinality({i \in 1..Len(heard.sounds) :
                             heard.sounds[i] = "snd_land"})
                = (IF sent.land # <<>> THEN 1 ELSE 0)
    /\ pc # "flush_all" => heard.sounds = <<>>

\* the second frame flushed events of the first; two jumps and two landings
\* were sent in it and AudioSystem played two jump sounds and one land sound
C33_Witness ==
    /\ frame = 2
    /\ pc = "flush_all"
    /\ sent.flushed > 0
    /\ Len(sent.jump) = 2
    /\ Len(sent.land) = 2
    /\ heard.sounds = <<"snd_jump", "snd_jump2", "snd_land">>

-----------------------------------------------------------------------------
(* Claims about runs of calls *)

\* C34: in a run of consecutive airborne calls at most one jump fires,
\* whatever is requested; counted from the last grounded call on, at most
\* two jumps fire: one in that grounded call and one in the air.
C34_OneAirJumpPerRun ==
    /\ call.air_jumps <= 1
    /\ call.air_jumps + (IF call.ground_jump THEN 1 ELSE 0) <= MaxJumps
    /\ call.made /\ ~call.on_ground /\ call.air_jumps = 1 =>
          state.jump_count = MaxJumps

\* a jump fired on the ground and one in the air, and a further request in
\* the same airborne run is refused
C34_Witness ==
    /\ call.made /\ ~call.on_ground /\ call.jump_requested
    /\ call.ground_jump
    /\ call.air_jumps = 1
    /\ run_len >= 2
    /\ state.jump_impulse = 0

\* C35: after an apply_state call jump_impulse is 0, 10 or 12; 10 goes with
\* Airborne and jump_count 2; 12 goes with Grounded and jump_count 1 or with
\* Airborne and jump_count 2; Grounded goes with air_time 0 and jump_count
\* at most 1, and jump_count 1 on the ground with impulse 12.
C35_ImpulseTiedToFields ==
    call.made =>
        /\ state.jump_impulse \in {0, SecondJumpImpulse, FirstJumpImpulse}
        /\ state.jump_impulse = SecondJumpImpulse =>
              state.mode = Airborne /\ state.jump_count = 2
        /\ state.jump_impulse = FirstJumpImpulse =>
              \/ state.mode = Grounded /\ state.jump_count = 1
              \/ state.mode = Airborne /\ state.jump_count = 2
        /\ state.mode = Grounded =>
              /\ state.air_time = 0
              /\ state.jump_count <= 1
              /\ state.jump_count = 1 => state.jump_impulse = FirstJumpImpulse

\* a call on a state with a stale impulse and both charges spent: ground
\* contact and a request give the grounded jump
C35_Witness ==
    /\ call.made /\ call.on_ground /\ call.jump_requested
    /\ prev.jump_count = 2
    /\ prev.jump_impulse = StaleImpulse
    /\ state.mode = Grounded
    /\ state.jump_count = 1
    /\ state.jump_impulse = FirstJumpImpulse

-----------------------------------------------------------------------------
(* Claims about the life of the physics bodies *)

\* the bodies named by the RigidBodyHandles of live entities
HandleBodies ==
    {handle[e] : e \in {x \in alive : "RigidBodyHandle" \in comps[x]}}

\* C36: after any sequence of scene load, platform spawn, entity destroy,
\* scene unload and world reset the bodies in the physics engine are exactly
\* those named by the RigidBodyHandles of live entities, each by one entity
\* and each added to the simulation; a destroyed entity's body is removed
\* and destroyed, and no body is destroyed twice or while in the broad phase
\* (none is left dangling).
C36_NoBodyLeak ==
    /\ LiveBodies(bodies) = HandleBodies
    /\ \A b \in BodyIds : bodies[b] \in {"free", "added"}
    /\ \A e \in Entities :
          /\ e \notin alive => comps[e] = {} /\ handle[e] = NoBody
          /\ "RigidBodyHandle" \in comps[e] <=> handle[e] # NoBody
    /\ \A e1, e2 \in alive :
          e1 # e2 /\ handle[e1] # NoBody => handle[e1] # handle[e2]

\* a loaded entity was destroyed and its body freed while another entity
\* keeps its body
C36_Witness ==
    /\ last.op = "destroy"
    /\ \E e \in alive : "WorldTag" \notin comps[e]
    /\ last.handle_before # NoBody
    /\ bodies[last.handle_before] = "free"
    /\ Cardinality(LiveBodies(bodies)) = 1

\* a reset freed the bodies of the world before it and built the scene's
C36_ResetWitness ==
    /\ last.op = "reset"
    /\ LiveBodies(last.bodies_before) # {}
    /\ LiveBodies(bodies) # {}
    /\ \E e \in last.world_before.alive : "PlayerTag" \notin comps[e]

-----------------------------------------------------------------------------
(* Claims about PlatformBuilderSystem *)

\* C37: a call queues a platform only when the trigger went from up to down
\* at that call and build_cooldown, after the call's decrement, is <= 0, it
\* queues one, and it leaves the cooldown at 0.25 s; a hold of the trigger
\* plants at most one platform; a hold that began while the cooldown ran
\* plants none, also at the calls after the cooldown expired.
C37_RisingEdgeAndCooldown ==
    /\ Len(deferred) <= 1
    /\ built.calls > 0 /\ deferred # <<>> =>
          /\ built.edge
          /\ built.cooldown <= 0
          /\ pstate.build_cooldown = BuildCooldown
    /\ built.hold_plants <= 1
    /\ built.missed => built.hold_plants = 0
    /\ built.calls > 0 => pstate.trigger_was_down = built.down

\* the trigger was pressed during the cooldown of an earlier platform and is
\* still held at a call where the cooldown has expired: nothing is planted
C37_Witness ==
    /\ built.missed
    /\ built.expired
    /\ built.cooldown <= 0
    /\ built.hold_plants = 0
    /\ deferred = <<>>

\* the trigger is held from the call that planted a platform until after
\* its cooldown expired, and that platform is the only one
C37_HoldWitness ==
    /\ built.down /\ ~built.edge
    /\ built.hold_plants = 1
    /\ built.cooldown <= 0
    /\ deferred = <<>>

====
